------------------------- MODULE TunnelStreamProofs -------------------------
(***************************************************************************)
(* Proofs about module TunnelStream, for any set of streams and any        *)
(* buffers: the multiplexed streams are the byte streams of module         *)
(* ByteStream.                                                             *)
(***************************************************************************)
EXTENDS TunnelStream, TLAPS

-----------------------------------------------------------------------------
(* The inductive invariant.  First, what can be said of the frames w that are  *)
(* on their way to an end.                                                     *)

Carries(f, typ, s) == f.typ = typ /\ f.id = s
\* A chunk written before the stream was closed; a later one.
Chunk(f, s) == Carries(f, "data", s) /\ f.n > 0
Late(f, s) == Carries(f, "data", s) /\ f.n = 0

Mentions(w, s) == \E i \in 1..Len(w) : w[i].id = s
Has(w, typ, s) == \E i \in 1..Len(w) : Carries(w[i], typ, s)

\* Chunks are in the order of their numbers, up to hi, and before the close.
Ordered(w, s, hi) ==
  /\ \A i \in 1..Len(w) : Chunk(w[i], s) => w[i].n <= hi
  /\ \A i, j \in 1..Len(w) : (i < j /\ Chunk(w[i], s) /\ Chunk(w[j], s)) => w[i].n < w[j].n
  /\ \A i, j \in 1..Len(w) : (Carries(w[i], "close", s) /\ Chunk(w[j], s)) => j < i

\* The chunks on the wire are lo + 1, ..., hi.
Complete(w, s, lo, hi) ==
  /\ \A i \in 1..Len(w) : Chunk(w[i], s) => lo < w[i].n
  /\ \A m \in (lo + 1)..hi : \E i \in 1..Len(w) : Carries(w[i], "data", s) /\ w[i].n = m

\* What was written after the close comes after it.
LateLast(w, s) ==
  \A j \in 1..Len(w) : Late(w[j], s) => \E i \in 1..Len(w) : i < j /\ Carries(w[i], "close", s)

\* An Open frame comes first.
OpenFirst(w, s) ==
  \A i, j \in 1..Len(w) : (Carries(w[i], "open", s) /\ w[j].id = s) => i <= j
LedByOpen(w, s) ==
  \A j \in 1..Len(w) : w[j].id = s => \E i \in 1..Len(w) : i <= j /\ Carries(w[i], "open", s)

Shut == {"eof", "closed"}
Holds(e, s) == held[e] # << >> /\ held[e][1].id = s
\* Chunks of s that e has read or is about to.
Taken(e, s) == Len(got[e][s]) + IF Holds(e, s) THEN 1 ELSE 0
\* What is on the wire for s will reach a pipe.
Receiving(e, s) ==
  pipe[e][s] = "open" \/ (e = "agent" /\ app[e][s] = "idle" /\ e \notin closed)

\* A stream in the table has an open pipe, and the other way round unless the
\* stream was never announced; a reader was told to stop by a shut pipe.
TableInv(e, s) ==
  /\ s \in table[e] => pipe[e][s] = "open" /\ e \notin closed
  /\ pipe[e][s] = "open" => s \in table[e] \/ app[e][s] = "failed"
  /\ pipe[e][s] = "none" <=> app[e][s] = "idle"
  /\ pipe[e][s] = "closed" => app[e][s] = "closed"
  /\ s \in ended[e] => pipe[e][s] \in Shut
  /\ app[e][s] = "failed" => e = "gateway"

\* Nobody knows of a stream before its Open frame is written, and the agent does
\* nothing for it before that frame is read.
QuietInv(s) ==
  /\ app["gateway"][s] \in {"idle", "opening", "failed"} =>
       /\ app["agent"][s] = "idle" /\ sent["gateway"][s] = 0
       /\ ~Mentions(wire["agent"], s)
  /\ app["agent"][s] = "idle" =>
       /\ sent["agent"][s] = 0 /\ \A e \in Ends : got[e][s] = << >>
       /\ ~Holds("agent", s) /\ ~Holds("gateway", s)
       /\ ~Mentions(wire["gateway"], s)

\* The Open frame is sent once and comes before all others of its stream; the
\* agent has yet to read it as long as it knows nothing of the stream.
OpenInv(s) ==
  /\ OpenFirst(wire["agent"], s)
  /\ Has(wire["agent"], "open", s) => app["agent"][s] = "idle"
  /\ app["agent"][s] = "idle" =>
       /\ LedByOpen(wire["agent"], s)
       /\ (app["gateway"][s] \in Unclosed \cup HungUp /\ "agent" \notin closed)
            => Has(wire["agent"], "open", s)

\* Chunks travel in order; while a stream is being received, the wire holds
\* exactly those that were sent and not yet taken.
ChunkInv(e, s) ==
  /\ Ordered(wire[e], s, sent[Peer(e)][s])
  /\ Receiving(e, s) => /\ Taken(e, s) <= sent[Peer(e)][s]
                        /\ Complete(wire[e], s, Taken(e, s), sent[Peer(e)][s])

\* The chunk in deliver is the next one of its stream.
HeldInv(e, s) ==
  Holds(e, s) => /\ pipe[e][s] # "none"
                 /\ pipe[e][s] = "open" => held[e][1].n = Len(got[e][s]) + 1

\* As long as the connection lasts, a stream that was hung up has its Close frame
\* on the way to the peer or has shut the pipe there, when all had been read.
CloseInv(e, s) ==
  /\ Has(wire[e], "close", s) => app[Peer(e)][s] \in HungUp
  /\ pipe[e][s] \in Shut \/ LateLast(wire[e], s)
  /\ (app[Peer(e)][s] \in HungUp /\ closed = {}) =>
       pipe[e][s] \in Shut \/ Has(wire[e], "close", s)
  /\ (pipe[e][s] = "eof" /\ closed = {}) =>
       app[Peer(e)][s] \in HungUp /\ Len(got[e][s]) = sent[Peer(e)][s]

EndInv(e, s) == TableInv(e, s) /\ ChunkInv(e, s) /\ HeldInv(e, s) /\ CloseInv(e, s)
StreamInv(s) == QuietInv(s) /\ OpenInv(s) /\ \A e \in Ends : EndInv(e, s)
Inv == TypeOK /\ \A s \in Streams : StreamInv(s)

-----------------------------------------------------------------------------
(* Frames on the wire: what writing one at the end and reading one from the    *)
(* front does to the predicates on a sequence of frames.                       *)

\* A frame that is written comes after the others, which keep their places.
LEMMA AppendPlaces ==
  ASSUME NEW w \in Seq(Frames), NEW f \in Frames
  PROVE  /\ Append(w, f) \in Seq(Frames)
         /\ Len(Append(w, f)) = Len(w) + 1
         /\ \A i \in 1..Len(w) : Append(w, f)[i] = w[i]
         /\ Append(w, f)[Len(w) + 1] = f
OBVIOUS

\* The elements of a wire are frames and their chunk numbers are naturals.
LEMMA Numbers ==
  ASSUME NEW w \in Seq(Frames), NEW i \in 1..Len(w)
  PROVE  w[i] \in Frames /\ w[i].n \in Nat
<1>1. w[i] \in Frames
  OBVIOUS
<1> QED BY <1>1 DEF Frames

\* Reading the frame at the front moves the others up by one place.
LEMMA TailPlaces ==
  ASSUME NEW w \in Seq(Frames), w # << >>
  PROVE  /\ Tail(w) \in Seq(Frames)
         /\ Len(w) \in Nat \ {0}
         /\ Len(Tail(w)) = Len(w) - 1
         /\ \A i \in 1..(Len(w) - 1) : Tail(w)[i] = w[i + 1]
         /\ Head(w) = w[1] /\ w[1] \in Frames
OBVIOUS

\* Whoever writes a frame adds it to what is said of its stream only.
LEMMA AppendHas ==
  ASSUME NEW w \in Seq(Frames), NEW f \in Frames, NEW s, NEW typ
  PROVE  /\ Mentions(Append(w, f), s) <=> Mentions(w, s) \/ f.id = s
         /\ Has(Append(w, f), typ, s) <=> Has(w, typ, s) \/ Carries(f, typ, s)
<1> DEFINE v == Append(w, f)
<1>1. /\ Len(w) \in Nat /\ Len(v) = Len(w) + 1
      /\ \A i \in 1..Len(w) : v[i] = w[i]
      /\ v[Len(w) + 1] = f
  BY AppendPlaces
<1> HIDE DEF v
<1>2. \A i \in 1..Len(v) : i \in 1..Len(w) \/ i = Len(w) + 1
  BY <1>1
<1>3. \A i \in 1..Len(w) : i \in 1..Len(v)
  BY <1>1
<1>4. Len(w) + 1 \in 1..Len(v)
  BY <1>1
<1>5. (Mentions(v, s) <=> Mentions(w, s) \/ f.id = s)
      /\ (Has(v, typ, s) <=> Has(w, typ, s) \/ Carries(f, typ, s))
  BY <1>1, <1>2, <1>3, <1>4 DEF Mentions, Has, Carries
<1> QED BY <1>5 DEF v

\* Writing a frame keeps the chunks in order: the next chunk extends the order
\* as long as no Close frame was written before it.
LEMMA AppendOrdered ==
  ASSUME NEW w \in Seq(Frames), NEW f \in Frames, NEW s, NEW hi \in Nat,
         Ordered(w, s, hi)
  PROVE  /\ ~Chunk(f, s) => Ordered(Append(w, f), s, hi)
         /\ (Chunk(f, s) /\ f.n = hi + 1 /\ ~Has(w, "close", s))
              => Ordered(Append(w, f), s, hi + 1)
<1> DEFINE v == Append(w, f)
<1>1. /\ Len(w) \in Nat /\ Len(v) = Len(w) + 1
      /\ \A i \in 1..Len(w) : v[i] = w[i] /\ w[i].n \in Nat
      /\ v[Len(w) + 1] = f
  BY AppendPlaces, Numbers
<1> HIDE DEF v
<1>2. \A i \in 1..Len(v) : i \in 1..Len(w) \/ i = Len(w) + 1
  BY <1>1
<1>3. ~Chunk(f, s) => Ordered(v, s, hi)
  BY <1>1, <1>2 DEF Ordered, Chunk, Carries
<1>4. ASSUME Chunk(f, s), f.n = hi + 1, ~Has(w, "close", s) PROVE Ordered(v, s, hi + 1)
  <2>1. \A i \in 1..Len(v) : Chunk(v[i], s) => v[i].n <= hi + 1
    BY <1>1, <1>2, <1>4 DEF Ordered
  <2>2. \A i, j \in 1..Len(v) : (i < j /\ Chunk(v[i], s) /\ Chunk(v[j], s)) => v[i].n < v[j].n
    <3> SUFFICES ASSUME NEW i \in 1..Len(v), NEW j \in 1..Len(v),
                        i < j, Chunk(v[i], s), Chunk(v[j], s)
                 PROVE  v[i].n < v[j].n
      OBVIOUS
    <3>1. i \in 1..Len(w) /\ v[i] = w[i] /\ w[i].n <= hi
      BY <1>1, <1>2 DEF Ordered
    <3>2. CASE j \in 1..Len(w)
      BY <1>1, <3>1, <3>2 DEF Ordered
    <3>3. CASE j = Len(w) + 1
      BY <1>1, <1>4, <3>1, <3>3
    <3> QED BY <1>2, <3>2, <3>3
  <2>3. \A i \in 1..Len(v) : ~Carries(v[i], "close", s)
    BY <1>1, <1>2, <1>4 DEF Chunk, Carries, Has
  <2> QED BY <2>1, <2>2, <2>3 DEF Ordered
<1> QED BY <1>3, <1>4 DEF v

\* Writing the next chunk leaves no gap behind the chunks on the wire.
LEMMA AppendComplete ==
  ASSUME NEW w \in Seq(Frames), NEW f \in Frames, NEW s, NEW lo \in Nat, NEW hi \in Nat,
         Complete(w, s, lo, hi)
  PROVE  /\ ~Chunk(f, s) => Complete(Append(w, f), s, lo, hi)
         /\ (Chunk(f, s) /\ f.n = hi + 1 /\ lo <= hi) => Complete(Append(w, f), s, lo, hi + 1)
<1> DEFINE v == Append(w, f)
<1>1. /\ Len(w) \in Nat /\ Len(v) = Len(w) + 1
      /\ \A i \in 1..Len(w) : v[i] = w[i] /\ w[i].n \in Nat
      /\ v[Len(w) + 1] = f
  BY AppendPlaces, Numbers
<1> HIDE DEF v
<1>2. /\ \A i \in 1..Len(v) : i \in 1..Len(w) \/ i = Len(w) + 1
      /\ \A i \in 1..Len(w) : i \in 1..Len(v)
      /\ Len(w) + 1 \in 1..Len(v)
  BY <1>1
<1>3. ~Chunk(f, s) => Complete(v, s, lo, hi)
  BY <1>1, <1>2 DEF Complete, Chunk, Carries
<1>4. ASSUME Chunk(f, s), f.n = hi + 1, lo <= hi PROVE Complete(v, s, lo, hi + 1)
  <2>1. \A i \in 1..Len(v) : Chunk(v[i], s) => lo < v[i].n
    BY <1>1, <1>2, <1>4 DEF Complete
  <2>2. ASSUME NEW m \in (lo + 1)..(hi + 1)
        PROVE  \E i \in 1..Len(v) : Carries(v[i], "data", s) /\ v[i].n = m
    <3>1. CASE m = hi + 1
      BY <1>1, <1>2, <1>4, <3>1 DEF Chunk
    <3>2. CASE m # hi + 1
      <4>1. m \in (lo + 1)..hi
        BY <3>2
      <4> QED BY <1>1, <1>2, <4>1 DEF Complete
    <3> QED BY <3>1, <3>2
  <2> QED BY <2>1, <2>2 DEF Complete
<1> QED BY <1>3, <1>4 DEF v

\* A chunk written after the Close frame is behind it on the wire.
LEMMA AppendLate ==
  ASSUME NEW w \in Seq(Frames), NEW f \in Frames, NEW s,
         LateLast(w, s), Late(f, s) => Has(w, "close", s)
  PROVE  LateLast(Append(w, f), s)
<1> DEFINE v == Append(w, f)
<1>1. /\ Len(w) \in Nat /\ Len(v) = Len(w) + 1
      /\ \A i \in 1..Len(w) : v[i] = w[i]
      /\ v[Len(w) + 1] = f
  BY AppendPlaces
<1> HIDE DEF v
<1>2. /\ \A i \in 1..Len(v) : i \in 1..Len(w) \/ i = Len(w) + 1
      /\ \A i \in 1..Len(w) : i \in 1..Len(v)
  BY <1>1
<1>3. SUFFICES ASSUME NEW j \in 1..Len(v), Late(v[j], s)
               PROVE  \E i \in 1..Len(v) : i < j /\ Carries(v[i], "close", s)
  BY DEF LateLast, v
<1>4. CASE j \in 1..Len(w)
  BY <1>1, <1>2, <1>3, <1>4 DEF LateLast
<1>5. CASE j = Len(w) + 1
  BY <1>1, <1>2, <1>3, <1>5 DEF Has
<1> QED BY <1>2, <1>4, <1>5

\* An Open frame stays in front of what is written after it.
LEMMA AppendOpen ==
  ASSUME NEW w \in Seq(Frames), NEW f \in Frames, NEW s
  PROVE  /\ (OpenFirst(w, s) /\ (Carries(f, "open", s) => ~Mentions(w, s)))
              => OpenFirst(Append(w, f), s)
         /\ (LedByOpen(w, s) /\ (f.id = s => f.typ = "open" \/ Has(w, "open", s)))
              => LedByOpen(Append(w, f), s)
<1> DEFINE v == Append(w, f)
<1>1. /\ Len(w) \in Nat /\ Len(v) = Len(w) + 1
      /\ \A i \in 1..Len(w) : v[i] = w[i]
      /\ v[Len(w) + 1] = f
  BY AppendPlaces
<1> HIDE DEF v
<1>2. /\ \A i \in 1..Len(v) : i \in 1..Len(w) \/ i = Len(w) + 1
      /\ \A i \in 1..Len(w) : i \in 1..Len(v)
      /\ Len(w) + 1 \in 1..Len(v)
  BY <1>1
<1>3. ASSUME OpenFirst(w, s), Carries(f, "open", s) => ~Mentions(w, s)
      PROVE  OpenFirst(v, s)
  BY <1>1, <1>2, <1>3 DEF OpenFirst, Carries, Mentions
<1>4. ASSUME LedByOpen(w, s), f.id = s => f.typ = "open" \/ Has(w, "open", s)
      PROVE  LedByOpen(v, s)
  <2> SUFFICES ASSUME NEW j \in 1..Len(v), v[j].id = s
               PROVE  \E i \in 1..Len(v) : i <= j /\ Carries(v[i], "open", s)
    BY DEF LedByOpen
  <2>1. CASE j \in 1..Len(w)
    BY <1>1, <1>2, <1>4, <2>1 DEF LedByOpen
  <2>2. CASE j = Len(w) + 1
    BY <1>1, <1>2, <1>4, <2>2 DEF Has, Carries
  <2> QED BY <1>2, <2>1, <2>2
<1> QED BY <1>3, <1>4 DEF v

\* Reading a frame takes nothing else away.
LEMMA TailHas ==
  ASSUME NEW w \in Seq(Frames), w # << >>, NEW s, NEW typ
  PROVE  /\ Mentions(Tail(w), s) => Mentions(w, s)
         /\ Has(Tail(w), typ, s) => Has(w, typ, s)
         /\ (Has(w, typ, s) /\ ~Carries(Head(w), typ, s)) => Has(Tail(w), typ, s)
         /\ Head(w).id = s => Mentions(w, s)
         /\ Carries(Head(w), typ, s) => Has(w, typ, s)
<1> DEFINE v == Tail(w)
<1>1. /\ Len(w) \in Nat \ {0} /\ Len(v) = Len(w) - 1
      /\ \A i \in 1..Len(v) : v[i] = w[i + 1]
      /\ Head(w) = w[1]
  BY TailPlaces
<1> HIDE DEF v
<1>2. /\ \A i \in 1..Len(v) : i + 1 \in 1..Len(w)
      /\ \A i \in 1..Len(w) : i = 1 \/ (i - 1 \in 1..Len(v) /\ (i - 1) + 1 = i)
      /\ 1 \in 1..Len(w)
  BY <1>1
<1>3. (Mentions(v, s) => Mentions(w, s)) /\ (Has(v, typ, s) => Has(w, typ, s))
  BY <1>1, <1>2 DEF Mentions, Has, Carries
<1>4. ASSUME Has(w, typ, s), ~Carries(Head(w), typ, s) PROVE Has(v, typ, s)
  <2>1. PICK i \in 1..Len(w) : Carries(w[i], typ, s)
    BY <1>4 DEF Has
  <2>2. i - 1 \in 1..Len(v) /\ v[i - 1] = w[i]
    BY <1>1, <1>2, <1>4, <2>1
  <2> QED BY <2>1, <2>2 DEF Has
<1>5. (Head(w).id = s => Mentions(w, s)) /\ (Carries(Head(w), typ, s) => Has(w, typ, s))
  BY <1>1, <1>2 DEF Mentions, Has
<1> QED BY <1>3, <1>4, <1>5 DEF v

\* Reading a frame keeps the chunks in order.
LEMMA TailOrdered ==
  ASSUME NEW w \in Seq(Frames), w # << >>, NEW s, NEW hi \in Nat, Ordered(w, s, hi)
  PROVE  Ordered(Tail(w), s, hi)
<1> DEFINE v == Tail(w)
<1>1. /\ Len(w) \in Nat \ {0} /\ Len(v) = Len(w) - 1
      /\ \A i \in 1..Len(v) : v[i] = w[i + 1] /\ i + 1 \in 1..Len(w)
  BY TailPlaces
<1> HIDE DEF v
<1>2. \A i, j \in 1..Len(v) : i < j <=> i + 1 < j + 1
  BY <1>1
<1>3. Ordered(v, s, hi)
  BY <1>1, <1>2 DEF Ordered
<1> QED BY <1>3 DEF v

\* The chunk at the front is the next one; without one there, none is missing.
LEMMA TailComplete ==
  ASSUME NEW w \in Seq(Frames), w # << >>, NEW s, NEW lo \in Nat, NEW hi \in Nat,
         Ordered(w, s, hi), Complete(w, s, lo, hi)
  PROVE  /\ ~Chunk(Head(w), s) => Complete(Tail(w), s, lo, hi)
         /\ Chunk(Head(w), s) =>
              Head(w).n = lo + 1 /\ lo + 1 <= hi /\ Complete(Tail(w), s, lo + 1, hi)
         /\ Carries(Head(w), "close", s) => hi <= lo
<1> DEFINE v == Tail(w)
<1>1. /\ Len(w) \in Nat \ {0} /\ Len(v) = Len(w) - 1
      /\ \A i \in 1..Len(v) : v[i] = w[i + 1] /\ i + 1 \in 1..Len(w)
      /\ Head(w) = w[1] /\ 1 \in 1..Len(w)
      /\ \A i \in 1..Len(w) : w[i].n \in Nat
  BY TailPlaces, Numbers
<1> HIDE DEF v
<1>2. \A i \in 1..Len(w) : i # 1 => i - 1 \in 1..Len(v) /\ v[i - 1] = w[i]
  BY <1>1
<1>3. ASSUME ~Chunk(w[1], s) PROVE Complete(v, s, lo, hi)
  <2>1. \A i \in 1..Len(v) : Chunk(v[i], s) => lo < v[i].n
    BY <1>1 DEF Complete
  <2>2. ASSUME NEW m \in (lo + 1)..hi
        PROVE  \E i \in 1..Len(v) : Carries(v[i], "data", s) /\ v[i].n = m
    <3>1. PICK i \in 1..Len(w) : Carries(w[i], "data", s) /\ w[i].n = m
      BY DEF Complete
    <3>2. i # 1
      BY <1>3, <3>1 DEF Chunk
    <3> QED BY <1>2, <3>1, <3>2
  <2> QED BY <2>1, <2>2 DEF Complete
<1>4. ASSUME Chunk(w[1], s) PROVE w[1].n = lo + 1 /\ lo + 1 <= hi /\ Complete(v, s, lo + 1, hi)
  <2>1. lo < w[1].n /\ w[1].n <= hi
    BY <1>1, <1>4 DEF Complete, Ordered
  <2>2. PICK i \in 1..Len(w) : Carries(w[i], "data", s) /\ w[i].n = lo + 1
    <3>1. lo + 1 \in (lo + 1)..hi
      BY <1>1, <2>1
    <3> QED BY <3>1 DEF Complete
  <2>3. w[1].n = lo + 1
    BY <1>1, <1>4, <2>1, <2>2 DEF Ordered, Chunk
  <2>4. \A j \in 1..Len(v) : Chunk(v[j], s) => lo + 1 < v[j].n
    <3> SUFFICES ASSUME NEW j \in 1..Len(v), Chunk(v[j], s) PROVE lo + 1 < v[j].n
      OBVIOUS
    <3>1. j + 1 \in 1..Len(w) /\ 1 < j + 1 /\ v[j] = w[j + 1]
      BY <1>1
    <3> QED BY <1>1, <1>4, <2>3, <3>1 DEF Ordered
  <2>5. ASSUME NEW m \in ((lo + 1) + 1)..hi
        PROVE  \E j \in 1..Len(v) : Carries(v[j], "data", s) /\ v[j].n = m
    <3>1. PICK j \in 1..Len(w) : Carries(w[j], "data", s) /\ w[j].n = m
      <4>1. m \in (lo + 1)..hi
        OBVIOUS
      <4> QED BY <4>1 DEF Complete
    <3>2. j # 1
      BY <2>3, <3>1
    <3> QED BY <1>2, <3>1, <3>2
  <2> QED BY <1>1, <2>1, <2>3, <2>4, <2>5 DEF Complete
<1>5. ASSUME Carries(w[1], "close", s) PROVE hi <= lo
  <2> SUFFICES ASSUME lo < hi PROVE FALSE
    OBVIOUS
  <2>1. PICK i \in 1..Len(w) : Carries(w[i], "data", s) /\ w[i].n = lo + 1
    BY DEF Complete
  <2> QED BY <1>1, <1>5, <2>1 DEF Ordered, Chunk
<1> QED BY <1>1, <1>3, <1>4, <1>5 DEF v

\* What was written late is never read before the Close frame.
LEMMA TailLate ==
  ASSUME NEW w \in Seq(Frames), w # << >>, NEW s, LateLast(w, s)
  PROVE  /\ ~Late(Head(w), s)
         /\ ~Carries(Head(w), "close", s) => LateLast(Tail(w), s)
<1> DEFINE v == Tail(w)
<1>1. /\ Len(w) \in Nat \ {0} /\ Len(v) = Len(w) - 1
      /\ \A i \in 1..Len(v) : v[i] = w[i + 1] /\ i + 1 \in 1..Len(w)
      /\ Head(w) = w[1] /\ 1 \in 1..Len(w)
  BY TailPlaces
<1> HIDE DEF v
<1>2. ~Late(w[1], s)
  BY <1>1 DEF LateLast
<1>3. ASSUME ~Carries(w[1], "close", s) PROVE LateLast(v, s)
  <2> SUFFICES ASSUME NEW j \in 1..Len(v), Late(v[j], s)
               PROVE  \E i \in 1..Len(v) : i < j /\ Carries(v[i], "close", s)
    BY DEF LateLast
  <2>1. PICK i \in 1..Len(w) : i < j + 1 /\ Carries(w[i], "close", s)
    BY <1>1 DEF LateLast
  <2>2. i # 1 /\ i - 1 \in 1..Len(v) /\ i - 1 < j /\ v[i - 1] = w[i]
    BY <1>1, <1>3, <2>1
  <2> QED BY <2>1, <2>2
<1> QED BY <1>1, <1>2, <1>3 DEF v

\* The first frame read of a stream that begins with its Open frame is that one,
\* and no second one follows.
LEMMA TailOpen ==
  ASSUME NEW w \in Seq(Frames), w # << >>, NEW s
  PROVE  /\ OpenFirst(w, s) => OpenFirst(Tail(w), s)
         /\ (OpenFirst(w, s) /\ Carries(Head(w), "open", s)) => ~Has(Tail(w), "open", s)
         /\ (LedByOpen(w, s) /\ Head(w).id = s) => Head(w).typ = "open"
         /\ (LedByOpen(w, s) /\ Head(w).id # s) => LedByOpen(Tail(w), s)
<1> DEFINE v == Tail(w)
<1>1. /\ Len(w) \in Nat \ {0} /\ Len(v) = Len(w) - 1
      /\ \A i \in 1..Len(v) : v[i] = w[i + 1] /\ i + 1 \in 1..Len(w)
      /\ Head(w) = w[1] /\ 1 \in 1..Len(w)
  BY TailPlaces
<1> HIDE DEF v
<1>2. OpenFirst(w, s) => OpenFirst(v, s)
  BY <1>1 DEF OpenFirst
<1>3. (OpenFirst(w, s) /\ Carries(w[1], "open", s)) => ~Has(v, "open", s)
  BY <1>1 DEF OpenFirst, Has, Carries
<1>4. (LedByOpen(w, s) /\ w[1].id = s) => w[1].typ = "open"
  BY <1>1 DEF LedByOpen, Carries
<1>5. ASSUME LedByOpen(w, s), w[1].id # s PROVE LedByOpen(v, s)
  <2> SUFFICES ASSUME NEW j \in 1..Len(v), v[j].id = s
               PROVE  \E i \in 1..Len(v) : i <= j /\ Carries(v[i], "open", s)
    BY DEF LedByOpen
  <2>1. PICK i \in 1..Len(w) : i <= j + 1 /\ Carries(w[i], "open", s)
    BY <1>1, <1>5 DEF LedByOpen
  <2>2. i # 1 /\ i - 1 \in 1..Len(v) /\ i - 1 <= j /\ v[i - 1] = w[i]
    BY <1>1, <1>5, <2>1 DEF Carries
  <2> QED BY <2>1, <2>2
<1> QED BY <1>1, <1>2, <1>3, <1>4, <1>5 DEF v

\* What a frame of one stream does to what is said of the others: nothing.
Same(v, w, t) ==
  /\ Mentions(v, t) <=> Mentions(w, t)
  /\ \A typ : Has(v, typ, t) <=> Has(w, typ, t)
  /\ \A hi \in Nat : Ordered(w, t, hi) => Ordered(v, t, hi)
  /\ \A lo, hi \in Nat : (Ordered(w, t, hi) /\ Complete(w, t, lo, hi)) => Complete(v, t, lo, hi)
  /\ LateLast(w, t) => LateLast(v, t)
  /\ OpenFirst(w, t) => OpenFirst(v, t)
  /\ LedByOpen(w, t) => LedByOpen(v, t)

\* Writing a frame changes nothing that is said of the other streams.
LEMMA AppendSame ==
  ASSUME NEW w \in Seq(Frames), NEW f \in Frames, NEW t, f.id # t
  PROVE  Same(Append(w, f), w, t)
<1>1. \A typ : ~Carries(f, typ, t) /\ ~Chunk(f, t) /\ ~Late(f, t)
  BY DEF Carries, Chunk, Late
<1>2. Mentions(Append(w, f), t) <=> Mentions(w, t)
  BY AppendHas
<1>3. ASSUME NEW typ PROVE Has(Append(w, f), typ, t) <=> Has(w, typ, t)
  BY <1>1, AppendHas
<1>4. \A hi \in Nat : Ordered(w, t, hi) => Ordered(Append(w, f), t, hi)
  BY <1>1, AppendOrdered
<1>5. \A lo, hi \in Nat : Complete(w, t, lo, hi) => Complete(Append(w, f), t, lo, hi)
  BY <1>1, AppendComplete
<1>6. LateLast(w, t) => LateLast(Append(w, f), t)
  BY <1>1, AppendLate
<1>7. (OpenFirst(w, t) => OpenFirst(Append(w, f), t)) /\ (LedByOpen(w, t) => LedByOpen(Append(w, f), t))
  BY <1>1, AppendOpen
<1> QED BY <1>2, <1>3, <1>4, <1>5, <1>6, <1>7 DEF Same

\* Reading a frame changes nothing that is said of the other streams.
LEMMA TailSame ==
  ASSUME NEW w \in Seq(Frames), w # << >>, NEW t, Head(w).id # t
  PROVE  Same(Tail(w), w, t)
<1>1. \A typ : ~Carries(Head(w), typ, t) /\ ~Chunk(Head(w), t)
  BY DEF Carries, Chunk
<1>2. Mentions(Tail(w), t) <=> Mentions(w, t)
  <2> DEFINE v == Tail(w)
  <2>1. /\ Len(w) \in Nat \ {0} /\ Len(v) = Len(w) - 1
        /\ \A i \in 1..Len(v) : v[i] = w[i + 1]
        /\ Head(w) = w[1]
    BY TailPlaces
  <2> HIDE DEF v
  <2>2. /\ \A i \in 1..Len(v) : i + 1 \in 1..Len(w)
        /\ \A i \in 1..Len(w) : i = 1 \/ (i - 1 \in 1..Len(v) /\ (i - 1) + 1 = i)
    BY <2>1
  <2>3. Mentions(v, t) => Mentions(w, t)
    BY <2>1, <2>2 DEF Mentions
  <2>4. ASSUME Mentions(w, t) PROVE Mentions(v, t)
    <3>1. PICK i \in 1..Len(w) : w[i].id = t
      BY <2>4 DEF Mentions
    <3>2. i - 1 \in 1..Len(v) /\ v[i - 1] = w[i]
      BY <2>1, <2>2, <3>1
    <3> QED BY <3>1, <3>2 DEF Mentions
  <2> QED BY <2>3, <2>4 DEF v
<1>3. ASSUME NEW typ PROVE Has(Tail(w), typ, t) <=> Has(w, typ, t)
  BY <1>1, TailHas
<1>4. \A hi \in Nat : Ordered(w, t, hi) => Ordered(Tail(w), t, hi)
  BY TailOrdered
<1>5. \A lo, hi \in Nat : (Ordered(w, t, hi) /\ Complete(w, t, lo, hi)) => Complete(Tail(w), t, lo, hi)
  BY <1>1, TailComplete
<1>6. LateLast(w, t) => LateLast(Tail(w), t)
  BY <1>1, TailLate
<1>7. (OpenFirst(w, t) => OpenFirst(Tail(w), t)) /\ (LedByOpen(w, t) => LedByOpen(Tail(w), t))
  BY TailOpen
<1> QED BY <1>2, <1>3, <1>4, <1>5, <1>6, <1>7 DEF Same

\* A wire that has no frame of a stream says all there is to say about it.
LEMMA Silent ==
  ASSUME NEW w \in Seq(Frames), NEW t, ~Mentions(w, t)
  PROVE  /\ \A typ : ~Has(w, typ, t)
         /\ \A hi \in Nat : Ordered(w, t, hi) /\ Complete(w, t, hi, hi)
         /\ LateLast(w, t) /\ OpenFirst(w, t) /\ LedByOpen(w, t)
<1>1. \A i \in 1..Len(w) : w[i].id # t
  BY DEF Mentions
<1>2. \A typ : \A i \in 1..Len(w) : ~Carries(w[i], typ, t)
  BY <1>1 DEF Carries
<1>3. \A hi \in Nat : (hi + 1)..hi = {}
  OBVIOUS
<1> QED BY <1>1, <1>2, <1>3 DEF Has, Ordered, Complete, LateLast, OpenFirst, LedByOpen, Chunk, Late

\* An empty wire has no frame of any stream.
LEMMA NoFrames ==
  ASSUME NEW t
  PROVE  << >> \in Seq(Frames) /\ ~Mentions(<< >>, t)
BY DEF Mentions

\* What openStream, Write and Close put on the wire.
LEMMA FramesAreFrames ==
  ASSUME NEW s \in Streams, NEW n \in Nat
  PROVE  /\ Open(s) \in Frames /\ Data(s, n) \in Frames /\ CloseFrame(s) \in Frames
         /\ Carries(Open(s), "open", s) /\ Carries(Data(s, n), "data", s)
         /\ Carries(CloseFrame(s), "close", s) /\ Data(s, n).n = n
BY DEF Open, Data, CloseFrame, Frames, Carries

\* There are two ends, and each is the peer of the other.
LEMMA TheEnds ==
  ASSUME NEW e \in Ends
  PROVE  /\ Peer(e) \in Ends /\ Peer(Peer(e)) = e /\ Peer(e) # e
         /\ \A a \in Ends : a = e \/ a = Peer(e)
         /\ "gateway" \in Ends /\ "agent" \in Ends
         /\ Peer("gateway") = "agent" /\ Peer("agent") = "gateway"
BY DEF Ends, Peer

-----------------------------------------------------------------------------
(* One step of the system keeps the invariant.                                 *)

\* A step that does not concern stream t.
Apart(t) ==
  /\ closed' = closed
  /\ \A a \in Ends :
       /\ app'[a][t] = app[a][t] /\ sent'[a][t] = sent[a][t]
       /\ got'[a][t] = got[a][t] /\ pipe'[a][t] = pipe[a][t]
       /\ t \in table'[a] <=> t \in table[a]
       /\ t \in ended'[a] <=> t \in ended[a]
       /\ Holds(a, t)' <=> Holds(a, t)
       /\ Holds(a, t) => held'[a][1] = held[a][1]
       /\ wire'[a] = wire[a] \/ Same(wire'[a], wire[a], t)

\* A step that does not concern a stream keeps the invariant of that stream.
LEMMA ApartKeeps ==
  ASSUME TypeOK, NEW t \in Streams, StreamInv(t), Apart(t)
  PROVE  StreamInv(t)'
<1>1. ASSUME NEW a \in Ends
      PROVE  /\ sent[a][t] \in Nat /\ Peer(a) \in Ends
             /\ Taken(a, t)' = Taken(a, t) /\ Taken(a, t) \in Nat
             /\ Receiving(a, t)' <=> Receiving(a, t)
  <2>1. sent[a][t] \in Nat /\ got[a][t] \in Seq(Nat)
    BY DEF TypeOK
  <2>2. Len(got[a][t]) \in Nat
    BY <2>1
  <2>3. Taken(a, t)' = Taken(a, t) /\ Taken(a, t) \in Nat
    <3>1. Holds(a, t)' <=> Holds(a, t)
      BY DEF Apart
    <3>2. got'[a][t] = got[a][t]
      BY DEF Apart
    <3>3. CASE Holds(a, t)
      <4>1. Taken(a, t) = Len(got[a][t]) + 1
        BY <3>3 DEF Taken
      <4>2. Taken(a, t)' = Len(got'[a][t]) + 1
        BY <3>1, <3>3 DEF Taken
      <4> QED BY <2>2, <3>2, <4>1, <4>2
    <3>4. CASE ~Holds(a, t)
      <4>1. Taken(a, t) = Len(got[a][t]) + 0
        BY <3>4 DEF Taken
      <4>2. Taken(a, t)' = Len(got'[a][t]) + 0
        BY <3>1, <3>4 DEF Taken
      <4> QED BY <2>2, <3>2, <4>1, <4>2
    <3> QED BY <3>3, <3>4
  <2>4. Receiving(a, t)' <=> Receiving(a, t)
    BY DEF Apart, Receiving
  <2> QED BY <2>1, <2>3, <2>4, TheEnds
<1>2. "gateway" \in Ends /\ "agent" \in Ends
  BY DEF Ends
<1>3. QuietInv(t)'
  BY <1>2 DEF QuietInv, Apart, StreamInv, Same
<1>4. OpenInv(t)'
  BY <1>2 DEF OpenInv, Apart, StreamInv, Same
<1>5. ASSUME NEW e \in Ends PROVE EndInv(e, t)'
  <2>1. TableInv(e, t)'
    BY <1>1 DEF TableInv, Apart, StreamInv, EndInv
  <2>2. ChunkInv(e, t)'
    BY <1>1 DEF ChunkInv, Apart, StreamInv, EndInv, Same
  <2>3. HeldInv(e, t)'
    BY <1>1 DEF HeldInv, Apart, StreamInv, EndInv
  <2>4. CloseInv(e, t)'
    BY <1>1 DEF CloseInv, Apart, StreamInv, EndInv, Same
  <2> QED BY <2>1, <2>2, <2>3, <2>4 DEF EndInv
<1> QED BY <1>3, <1>4, <1>5 DEF StreamInv

\* Every step keeps the types and the bound on the buffers.
LEMMA TypeStep ==
  ASSUME TypeOK, [Next]_vars
  PROVE  TypeOK'
<1> USE DEF TypeOK
<1>0. BufCap \in Nat \ {0} /\ "gateway" \in Ends /\ "agent" \in Ends
  BY BoundsAssumption DEF Ends
<1>1. ASSUME NEW e \in Ends, NEW f \in Frames, WriteFrame(e, f)
      PROVE  wire' \in [Ends -> Seq(Frames)] /\ \A a \in Ends : Len(wire'[a]) <= BufCap
  <2>1. Peer(e) \in Ends /\ wire[Peer(e)] \in Seq(Frames)
    BY TheEnds
  <2>2. /\ Append(wire[Peer(e)], f) \in Seq(Frames)
        /\ Len(Append(wire[Peer(e)], f)) = Len(wire[Peer(e)]) + 1
        /\ Len(wire[Peer(e)]) \in Nat
    BY <2>1
  <2> HIDE DEF TypeOK
  <2>3. CASE Peer(e) \in closed
    BY <1>1, <2>3 DEF WriteFrame, TypeOK
  <2>4. CASE Peer(e) \notin closed
    <3>1. /\ Len(wire[Peer(e)]) < BufCap
          /\ wire' = [wire EXCEPT ![Peer(e)] = Append(wire[Peer(e)], f)]
      BY <1>1, <2>4 DEF WriteFrame
    <3> QED BY <1>0, <2>1, <2>2, <3>1 DEF TypeOK
  <2> QED BY <2>3, <2>4
<1>2. ASSUME NEW e \in Ends, NEW typ, NextFrame(e, typ)
      PROVE  /\ wire' \in [Ends -> Seq(Frames)] /\ \A a \in Ends : Len(wire'[a]) <= BufCap
             /\ Head(wire[e]) \in Frames /\ Head(wire[e]).id \in Streams
  <2>1. wire[e] \in Seq(Frames) /\ wire[e] # << >> /\ wire' = [wire EXCEPT ![e] = Tail(wire[e])]
    BY <1>2 DEF NextFrame
  <2>2. /\ Tail(wire[e]) \in Seq(Frames)
        /\ Len(Tail(wire[e])) <= Len(wire[e])
        /\ Len(wire[e]) \in Nat /\ Len(Tail(wire[e])) \in Nat
        /\ Head(wire[e]) \in Frames
    BY <2>1
  <2>3. Head(wire[e]).id \in Streams
    BY <2>2 DEF Frames
  <2>4. \A a \in Ends : Len(wire'[a]) <= BufCap
    BY <1>0, <2>1, <2>2
  <2> QED BY <2>1, <2>2, <2>3, <2>4
<1>3. ASSUME NEW s \in Streams, OpenStream(s) PROVE TypeOK'
  BY <1>0, <1>3 DEF OpenStream, App, SetPipe, linkVars
<1>4. ASSUME NEW s \in Streams, OpenSent(s) PROVE TypeOK'
  BY <1>0, <1>1, <1>4, FramesAreFrames DEF OpenSent, App, Unclosed, muxVars
<1>5. ASSUME NEW s \in Streams, OpenFails(s) PROVE TypeOK'
  BY <1>0, <1>5 DEF OpenFails, App, linkVars
<1>6. ASSUME NEW s \in Streams, DialSSHD(s) PROVE TypeOK'
  BY <1>0, <1>6 DEF DialSSHD, App, Unclosed, linkVars, muxVars
<1>7. ASSUME NEW e \in Ends, NEW s \in Streams, Write(e, s) PROVE TypeOK'
  <2>1. sent[e][s] \in Nat /\ sent[e][s] + 1 \in Nat /\ budget[e] \in Nat /\ budget[e] - 1 \in Nat
    BY <1>7 DEF Write
  <2>2. Data(s, sent[e][s] + 1) \in Frames /\ Data(s, 0) \in Frames
    BY <2>1, FramesAreFrames
  <2>3. wire' \in [Ends -> Seq(Frames)] /\ \A a \in Ends : Len(wire'[a]) <= BufCap
    BY <1>1, <1>7, <2>2 DEF Write
  <2>4. /\ sent' = sent \/ sent' = [sent EXCEPT ![e][s] = sent[e][s] + 1]
        /\ budget' = [budget EXCEPT ![e] = budget[e] - 1]
    BY <1>7 DEF Write
  <2>5. sent' \in [Ends -> [Streams -> Nat]]
    <3>1. CASE sent' = sent
      BY <3>1
    <3>2. CASE sent' = [sent EXCEPT ![e][s] = sent[e][s] + 1]
      BY <2>1, <3>2
    <3> QED BY <2>4, <3>1, <3>2
  <2>6. budget' \in [Ends \cup {"breaks"} -> Nat]
    BY <2>1, <2>4
  <2> QED BY <1>7, <2>3, <2>5, <2>6 DEF Write, muxVars
<1>8. ASSUME NEW e \in Ends, NEW s \in Streams, Read(e, s) PROVE TypeOK'
  <2>1. held[e] \in Seq(Frames) /\ held[e] # << >> /\ got[e][s] \in Seq(Nat)
    BY <1>8 DEF Read
  <2>2. held[e][1] \in Frames
    BY <2>1
  <2>3. held[e][1].n \in Nat
    BY <2>2 DEF Frames
  <2>4. Append(got[e][s], held[e][1].n) \in Seq(Nat) /\ << >> \in Seq(Frames)
    BY <2>1, <2>3
  <2> QED BY <1>8, <2>4 DEF Read, linkVars
<1>9. ASSUME NEW e \in Ends, NEW s \in Streams, ReadEOF(e, s) PROVE TypeOK'
  BY <1>9 DEF ReadEOF, linkVars, muxVars
<1>10. ASSUME NEW e \in Ends, NEW s \in Streams, StreamClose(e, s) \/ CloseSent(e, s) PROVE TypeOK'
  <2>1. CASE StreamClose(e, s)
    BY <2>1 DEF StreamClose, App, Unclosed, linkVars, muxVars
  <2>2. CASE CloseSent(e, s)
    <3>1. wire' \in [Ends -> Seq(Frames)] /\ \A a \in Ends : Len(wire'[a]) <= BufCap
      BY <1>1, <2>2, FramesAreFrames DEF CloseSent
    <3> QED BY <2>2, <3>1 DEF CloseSent, App, HungUp, muxVars
  <2> QED BY <1>10, <2>1, <2>2
<1>11. ASSUME NEW e \in Ends, NEW s \in Streams, StreamRemove(e, s) PROVE TypeOK'
  BY <1>11 DEF StreamRemove, App, SetPipe, HungUp, linkVars
<1>12. ASSUME NEW e \in Ends, ReadOpen(e) PROVE TypeOK'
  BY <1>2, <1>12 DEF ReadOpen, App, SetPipe
<1>13. ASSUME NEW e \in Ends, ReadData(e) PROVE TypeOK'
  <2>1. /\ wire' \in [Ends -> Seq(Frames)] /\ \A a \in Ends : Len(wire'[a]) <= BufCap
        /\ Head(wire[e]) \in Frames
    BY <1>2, <1>13 DEF ReadData
  <2>2. <<Head(wire[e])>> \in Seq(Frames) /\ << >> \in Seq(Frames)
    BY <2>1
  <2> QED BY <1>13, <2>1, <2>2 DEF ReadData, userVars
<1>14. ASSUME NEW e \in Ends, DeliverFails(e) PROVE TypeOK'
  BY <1>14 DEF DeliverFails, linkVars, userVars
<1>15. ASSUME NEW e \in Ends, ReadClose(e) PROVE TypeOK'
  BY <1>2, <1>15 DEF ReadClose, SetPipe, userVars
<1>16. ASSUME NEW e \in Ends, CloseConn(e), Breaks \/ UNCHANGED budget PROVE TypeOK'
  <2>1. wire' \in [Ends -> Seq(Frames)] /\ \A a \in Ends : Len(wire'[a]) <= BufCap
    BY <1>0, <1>16 DEF CloseConn
  <2>2. budget["breaks"] \in Nat /\ (budget["breaks"] > 0 => budget["breaks"] - 1 \in Nat)
    OBVIOUS
  <2>3. budget' \in [Ends \cup {"breaks"} -> Nat]
    BY <1>16, <2>2 DEF Breaks
  <2> QED BY <1>16, <2>1, <2>3 DEF CloseConn
<1>17. CASE UNCHANGED vars
  BY <1>17 DEF vars, linkVars, muxVars, userVars
<1> HIDE DEF TypeOK
<1> QED
  BY <1>0, <1>3, <1>4, <1>5, <1>6, <1>7, <1>8, <1>9, <1>10, <1>11, <1>12, <1>13, <1>14, <1>15,
     <1>16, <1>17 DEF Next, ReadLoop, Reader, ReadFails, Replaced

\* openStream enters a stream into the table of which no frame exists yet.
LEMMA OpenStreamKeeps ==
  ASSUME Inv, TypeOK', NEW s \in Streams, OpenStream(s)
  PROVE  Inv'
<1>1. TypeOK /\ "gateway" \in Ends /\ "agent" \in Ends
  BY DEF Inv, Ends
<1>2. /\ wire' = wire /\ closed' = closed /\ held' = held
      /\ sent' = sent /\ got' = got /\ ended' = ended
      /\ "gateway" \notin closed /\ app["gateway"][s] = "idle" /\ app'["gateway"][s] = "opening"
      /\ pipe'["gateway"][s] = "open" /\ s \in table'["gateway"]
      /\ \A a \in Ends, t \in Streams : (a = "gateway" /\ t = s) \/ app'[a][t] = app[a][t]
      /\ \A a \in Ends, t \in Streams : (a = "gateway" /\ t = s) \/ pipe'[a][t] = pipe[a][t]
      /\ \A a \in Ends, t \in Streams : (a = "gateway" /\ t = s) \/ (t \in table'[a] <=> t \in table[a])
  <2>1. /\ wire' = wire /\ closed' = closed /\ held' = held
        /\ sent' = sent /\ got' = got /\ ended' = ended
        /\ "gateway" \notin closed /\ app["gateway"][s] = "idle" /\ app'["gateway"][s] = "opening"
        /\ pipe'["gateway"][s] = "open" /\ s \in table'["gateway"]
    BY <1>1 DEF OpenStream, App, SetPipe, linkVars, TypeOK
  <2>2. \A a \in Ends, t \in Streams : (a = "gateway" /\ t = s) \/ app'[a][t] = app[a][t]
    BY <1>1 DEF OpenStream, App, SetPipe, linkVars, TypeOK
  <2>3. \A a \in Ends, t \in Streams : (a = "gateway" /\ t = s) \/ pipe'[a][t] = pipe[a][t]
    BY <1>1 DEF OpenStream, App, SetPipe, linkVars, TypeOK
  <2>4. \A a \in Ends, t \in Streams : (a = "gateway" /\ t = s) \/ (t \in table'[a] <=> t \in table[a])
    BY <1>1 DEF OpenStream, App, SetPipe, linkVars, TypeOK
  <2> QED BY <2>1, <2>2, <2>3, <2>4
<1>3. ASSUME NEW t \in Streams, t # s PROVE StreamInv(t)'
  <2>1. Apart(t)
    BY <1>2, <1>3 DEF Apart, Holds
  <2> QED BY <1>1, <2>1, ApartKeeps DEF Inv
<1>4. \A a \in Ends : Peer(a) \in Ends /\ EndInv(a, s) /\ Taken(a, s)' = Taken(a, s)
  BY <1>2, TheEnds DEF Inv, StreamInv, Taken, Holds
<1>5. QuietInv(s) /\ OpenInv(s) /\ Peer("gateway") = "agent" /\ Peer("agent") = "gateway"
  BY TheEnds DEF Inv, StreamInv, Ends
<1>6. QuietInv(s)'
  BY <1>1, <1>2, <1>4, <1>5 DEF QuietInv, Holds
<1>7. OpenInv(s)'
  BY <1>1, <1>2, <1>4, <1>5 DEF OpenInv, QuietInv, HungUp, Unclosed
<1>8. ASSUME NEW a \in Ends PROVE EndInv(a, s)'
  <2>1. TableInv(a, s)'
    BY <1>1, <1>2, <1>4 DEF TableInv, EndInv, Shut
  <2>2. ChunkInv(a, s)'
    <3>1. /\ sent["agent"][s] = 0 /\ got["gateway"][s] = << >> /\ ~Holds("gateway", s)
          /\ ~Mentions(wire["gateway"], s)
      BY <1>1, <1>2, <1>5 DEF QuietInv
    <3>2. Taken("gateway", s) = 0
      BY <3>1 DEF Taken
    <3>3. Complete(wire["gateway"], s, 0, 0)
      <4>1. wire["gateway"] \in Seq(Frames)
        BY <1>1 DEF TypeOK
      <4> QED BY <3>1, <4>1, Silent
    <3> QED
      BY <1>1, <1>2, <1>4, <1>5, <3>1, <3>2, <3>3 DEF ChunkInv, EndInv, TableInv, Receiving
  <2>3. HeldInv(a, s)'
    BY <1>1, <1>2, <1>4, <1>5 DEF HeldInv, EndInv, TableInv, QuietInv, Holds
  <2>4. CloseInv(a, s)'
    BY <1>1, <1>2, <1>4, <1>5 DEF CloseInv, EndInv, TableInv, Shut, HungUp
  <2> QED BY <2>1, <2>2, <2>3, <2>4 DEF EndInv
<1> QED BY <1>3, <1>6, <1>7, <1>8 DEF Inv, StreamInv

\* openStream gives up a stream that the agent has never heard of.
LEMMA OpenFailsKeeps ==
  ASSUME Inv, TypeOK', NEW s \in Streams, OpenFails(s)
  PROVE  Inv'
<1>1. TypeOK /\ "gateway" \in Ends /\ "agent" \in Ends
  BY DEF Inv, Ends
<1>2. /\ wire' = wire /\ closed' = closed /\ held' = held /\ pipe' = pipe
      /\ sent' = sent /\ got' = got /\ ended' = ended
      /\ closed # {} /\ app["gateway"][s] = "opening" /\ app'["gateway"][s] = "failed"
      /\ s \notin table'["gateway"]
      /\ \A a \in Ends, t \in Streams : (a = "gateway" /\ t = s) \/ app'[a][t] = app[a][t]
      /\ \A a \in Ends, t \in Streams : (a = "gateway" /\ t = s) \/ (t \in table'[a] <=> t \in table[a])
  <2>1. /\ wire' = wire /\ closed' = closed /\ held' = held /\ pipe' = pipe
        /\ sent' = sent /\ got' = got /\ ended' = ended
        /\ closed # {} /\ app["gateway"][s] = "opening" /\ app'["gateway"][s] = "failed"
        /\ s \notin table'["gateway"]
    BY <1>1 DEF OpenFails, App, linkVars, TypeOK
  <2>2. \A a \in Ends, t \in Streams : (a = "gateway" /\ t = s) \/ app'[a][t] = app[a][t]
    BY <1>1 DEF OpenFails, App, linkVars, TypeOK
  <2>3. \A a \in Ends, t \in Streams : (a = "gateway" /\ t = s) \/ (t \in table'[a] <=> t \in table[a])
    BY <1>1 DEF OpenFails, App, linkVars, TypeOK
  <2> QED BY <2>1, <2>2, <2>3
<1>3. ASSUME NEW t \in Streams, t # s PROVE StreamInv(t)'
  <2>1. Apart(t)
    BY <1>2, <1>3 DEF Apart, Holds
  <2> QED BY <1>1, <2>1, ApartKeeps DEF Inv
<1>4. \A a \in Ends : Peer(a) \in Ends /\ EndInv(a, s) /\ Taken(a, s)' = Taken(a, s)
  BY <1>2, TheEnds DEF Inv, StreamInv, Taken, Holds
<1>5. QuietInv(s) /\ OpenInv(s) /\ Peer("gateway") = "agent" /\ Peer("agent") = "gateway"
  BY TheEnds DEF Inv, StreamInv, Ends
<1>6. QuietInv(s)'
  BY <1>1, <1>2, <1>4, <1>5 DEF QuietInv, Holds
<1>7. OpenInv(s)'
  BY <1>1, <1>2, <1>4, <1>5 DEF OpenInv, QuietInv, HungUp, Unclosed
<1>8. ASSUME NEW a \in Ends PROVE EndInv(a, s)'
  <2>1. TableInv(a, s)'
    BY <1>1, <1>2, <1>4 DEF TableInv, EndInv, Shut
  <2>2. ChunkInv(a, s)'
    BY <1>1, <1>2, <1>4, <1>5 DEF ChunkInv, EndInv, TableInv, Receiving
  <2>3. HeldInv(a, s)'
    BY <1>1, <1>2, <1>4, <1>5 DEF HeldInv, EndInv, TableInv, QuietInv, Holds
  <2>4. CloseInv(a, s)'
    BY <1>1, <1>2, <1>4, <1>5 DEF CloseInv, EndInv, TableInv, Shut, HungUp
  <2> QED BY <2>1, <2>2, <2>3, <2>4 DEF EndInv
<1> QED BY <1>3, <1>6, <1>7, <1>8 DEF Inv, StreamInv

\* The bridge reaches sshd.
LEMMA DialSSHDKeeps ==
  ASSUME Inv, TypeOK', NEW s \in Streams, DialSSHD(s)
  PROVE  Inv'
<1>1. TypeOK /\ "gateway" \in Ends /\ "agent" \in Ends
  BY DEF Inv, Ends
<1>2. /\ wire' = wire /\ closed' = closed /\ held' = held /\ pipe' = pipe /\ table' = table
      /\ sent' = sent /\ got' = got /\ ended' = ended
      /\ app["agent"][s] = "opening" /\ app'["agent"][s] = "open"
      /\ \A a \in Ends, t \in Streams : (a = "agent" /\ t = s) \/ app'[a][t] = app[a][t]
  <2>1. /\ wire' = wire /\ closed' = closed /\ held' = held /\ pipe' = pipe /\ table' = table
        /\ sent' = sent /\ got' = got /\ ended' = ended
        /\ app["agent"][s] = "opening" /\ app'["agent"][s] = "open"
    BY <1>1 DEF DialSSHD, App, linkVars, muxVars, TypeOK
  <2>2. \A a \in Ends, t \in Streams : (a = "agent" /\ t = s) \/ app'[a][t] = app[a][t]
    BY <1>1 DEF DialSSHD, App, linkVars, muxVars, TypeOK
  <2> QED BY <2>1, <2>2
<1>3. ASSUME NEW t \in Streams, t # s PROVE StreamInv(t)'
  <2>1. Apart(t)
    BY <1>2, <1>3 DEF Apart, Holds
  <2> QED BY <1>1, <2>1, ApartKeeps DEF Inv
<1>4. \A a \in Ends : Peer(a) \in Ends /\ EndInv(a, s) /\ Taken(a, s)' = Taken(a, s)
  BY <1>2, TheEnds DEF Inv, StreamInv, Taken, Holds
<1>5. QuietInv(s) /\ OpenInv(s) /\ Peer("gateway") = "agent" /\ Peer("agent") = "gateway"
  BY TheEnds DEF Inv, StreamInv, Ends
<1>6. QuietInv(s)'
  BY <1>1, <1>2, <1>4, <1>5 DEF QuietInv, Holds
<1>7. OpenInv(s)'
  BY <1>1, <1>2, <1>4, <1>5 DEF OpenInv, QuietInv, HungUp, Unclosed
<1>8. ASSUME NEW a \in Ends PROVE EndInv(a, s)'
  <2>1. TableInv(a, s)'
    BY <1>1, <1>2, <1>4 DEF TableInv, EndInv, Shut
  <2>2. ChunkInv(a, s)'
    BY <1>1, <1>2, <1>4, <1>5 DEF ChunkInv, EndInv, TableInv, Receiving
  <2>3. HeldInv(a, s)'
    BY <1>1, <1>2, <1>4, <1>5 DEF HeldInv, EndInv, TableInv, QuietInv, Holds
  <2>4. CloseInv(a, s)'
    BY <1>1, <1>2, <1>4, <1>5 DEF CloseInv, EndInv, TableInv, Shut, HungUp
  <2> QED BY <2>1, <2>2, <2>3, <2>4 DEF EndInv
<1> QED BY <1>3, <1>6, <1>7, <1>8 DEF Inv, StreamInv

\* stream.Close begins: nothing is written yet.
LEMMA StreamCloseKeeps ==
  ASSUME Inv, TypeOK', NEW e \in Ends, NEW s \in Streams, StreamClose(e, s)
  PROVE  Inv'
<1>1. TypeOK /\ "gateway" \in Ends /\ "agent" \in Ends
  BY DEF Inv, Ends
<1>2. /\ wire' = wire /\ closed' = closed /\ held' = held /\ pipe' = pipe /\ table' = table
      /\ sent' = sent /\ got' = got /\ ended' = ended
      /\ app[e][s] = "open" \/ (e = "agent" /\ app[e][s] = "opening")
      /\ app'[e][s] = "hanging"
      /\ \A a \in Ends, t \in Streams : (a = e /\ t = s) \/ app'[a][t] = app[a][t]
  <2>1. /\ wire' = wire /\ closed' = closed /\ held' = held /\ pipe' = pipe /\ table' = table
        /\ sent' = sent /\ got' = got /\ ended' = ended
        /\ app[e][s] = "open" \/ (e = "agent" /\ app[e][s] = "opening")
        /\ app'[e][s] = "hanging"
    BY <1>1 DEF StreamClose, App, InUse, linkVars, muxVars, TypeOK
  <2>2. \A a \in Ends, t \in Streams : (a = e /\ t = s) \/ app'[a][t] = app[a][t]
    BY <1>1 DEF StreamClose, App, InUse, linkVars, muxVars, TypeOK
  <2> QED BY <2>1, <2>2
<1>3. ASSUME NEW t \in Streams, t # s PROVE StreamInv(t)'
  <2>1. Apart(t)
    BY <1>2, <1>3 DEF Apart, Holds
  <2> QED BY <1>1, <2>1, ApartKeeps DEF Inv
<1>4. \A a \in Ends : Peer(a) \in Ends /\ EndInv(a, s) /\ Taken(a, s)' = Taken(a, s)
  BY <1>2, TheEnds DEF Inv, StreamInv, Taken, Holds
<1>5. QuietInv(s) /\ OpenInv(s) /\ Peer("gateway") = "agent" /\ Peer("agent") = "gateway"
  BY TheEnds DEF Inv, StreamInv, Ends
<1>6. QuietInv(s)'
  BY <1>1, <1>2, <1>4, <1>5 DEF QuietInv, Holds
<1>7. OpenInv(s)'
  BY <1>1, <1>2, <1>4, <1>5 DEF OpenInv, QuietInv, HungUp, Unclosed
<1>8. ASSUME NEW a \in Ends PROVE EndInv(a, s)'
  <2>1. TableInv(a, s)'
    BY <1>1, <1>2, <1>4 DEF TableInv, EndInv, Shut
  <2>2. ChunkInv(a, s)'
    BY <1>1, <1>2, <1>4, <1>5 DEF ChunkInv, EndInv, TableInv, Receiving
  <2>3. HeldInv(a, s)'
    BY <1>1, <1>2, <1>4, <1>5 DEF HeldInv, EndInv, TableInv, QuietInv, Holds
  <2>4. CloseInv(a, s)'
    BY <1>1, <1>2, <1>4, <1>5 DEF CloseInv, EndInv, TableInv, Shut, HungUp
  <2> QED BY <2>1, <2>2, <2>3, <2>4 DEF EndInv
<1> QED BY <1>3, <1>6, <1>7, <1>8 DEF Inv, StreamInv

\* A reader is told of a pipe that the tunnel has shut.
LEMMA ReadEOFKeeps ==
  ASSUME Inv, TypeOK', NEW e \in Ends, NEW s \in Streams, ReadEOF(e, s)
  PROVE  Inv'
<1>1. TypeOK /\ "gateway" \in Ends /\ "agent" \in Ends
  BY DEF Inv, Ends
<1>2. /\ wire' = wire /\ closed' = closed /\ held' = held /\ pipe' = pipe /\ table' = table
      /\ app' = app /\ sent' = sent /\ got' = got
      /\ pipe[e][s] = "eof" /\ s \in ended'[e]
      /\ \A a \in Ends, t \in Streams : (a = e /\ t = s) \/ (t \in ended'[a] <=> t \in ended[a])
  <2>1. /\ wire' = wire /\ closed' = closed /\ held' = held /\ pipe' = pipe /\ table' = table
        /\ app' = app /\ sent' = sent /\ got' = got
        /\ pipe[e][s] = "eof" /\ s \in ended'[e]
    BY <1>1 DEF ReadEOF, linkVars, muxVars, TypeOK
  <2>2. \A a \in Ends, t \in Streams : (a = e /\ t = s) \/ (t \in ended'[a] <=> t \in ended[a])
    BY <1>1 DEF ReadEOF, linkVars, muxVars, TypeOK
  <2> QED BY <2>1, <2>2
<1>3. ASSUME NEW t \in Streams, t # s PROVE StreamInv(t)'
  <2>1. Apart(t)
    BY <1>2, <1>3 DEF Apart, Holds
  <2> QED BY <1>1, <2>1, ApartKeeps DEF Inv
<1>4. \A a \in Ends : Peer(a) \in Ends /\ EndInv(a, s) /\ Taken(a, s)' = Taken(a, s)
  BY <1>2, TheEnds DEF Inv, StreamInv, Taken, Holds
<1>5. QuietInv(s) /\ OpenInv(s) /\ Peer("gateway") = "agent" /\ Peer("agent") = "gateway"
  BY TheEnds DEF Inv, StreamInv, Ends
<1>6. QuietInv(s)'
  BY <1>1, <1>2, <1>4, <1>5 DEF QuietInv, Holds
<1>7. OpenInv(s)'
  BY <1>1, <1>2, <1>4, <1>5 DEF OpenInv, QuietInv, HungUp, Unclosed
<1>8. ASSUME NEW a \in Ends PROVE EndInv(a, s)'
  <2>1. TableInv(a, s)'
    BY <1>1, <1>2, <1>4 DEF TableInv, EndInv, Shut
  <2>2. ChunkInv(a, s)'
    BY <1>1, <1>2, <1>4, <1>5 DEF ChunkInv, EndInv, TableInv, Receiving
  <2>3. HeldInv(a, s)'
    BY <1>1, <1>2, <1>4, <1>5 DEF HeldInv, EndInv, TableInv, QuietInv, Holds
  <2>4. CloseInv(a, s)'
    BY <1>1, <1>2, <1>4, <1>5 DEF CloseInv, EndInv, TableInv, Shut, HungUp
  <2> QED BY <2>1, <2>2, <2>3, <2>4 DEF EndInv
<1> QED BY <1>3, <1>6, <1>7, <1>8 DEF Inv, StreamInv

\* The second half of stream.Close.
LEMMA StreamRemoveKeeps ==
  ASSUME Inv, TypeOK', NEW e \in Ends, NEW s \in Streams, StreamRemove(e, s)
  PROVE  Inv'
<1>1. TypeOK /\ "gateway" \in Ends /\ "agent" \in Ends
  BY DEF Inv, Ends
<1>2. /\ wire' = wire /\ closed' = closed /\ held' = held
      /\ sent' = sent /\ got' = got /\ ended' = ended
      /\ app[e][s] = "closing" /\ app'[e][s] = "closed"
      /\ pipe'[e][s] = "closed" /\ s \notin table'[e]
      /\ \A a \in Ends, t \in Streams : (a = e /\ t = s) \/ app'[a][t] = app[a][t]
      /\ \A a \in Ends, t \in Streams : (a = e /\ t = s) \/ pipe'[a][t] = pipe[a][t]
      /\ \A a \in Ends, t \in Streams : (a = e /\ t = s) \/ (t \in table'[a] <=> t \in table[a])
  <2>1. /\ wire' = wire /\ closed' = closed /\ held' = held
        /\ sent' = sent /\ got' = got /\ ended' = ended
        /\ app[e][s] = "closing" /\ app'[e][s] = "closed"
        /\ pipe'[e][s] = "closed" /\ s \notin table'[e]
    BY <1>1 DEF StreamRemove, App, SetPipe, linkVars, TypeOK
  <2>2. \A a \in Ends, t \in Streams : (a = e /\ t = s) \/ app'[a][t] = app[a][t]
    BY <1>1 DEF StreamRemove, App, SetPipe, linkVars, TypeOK
  <2>3. \A a \in Ends, t \in Streams : (a = e /\ t = s) \/ pipe'[a][t] = pipe[a][t]
    BY <1>1 DEF StreamRemove, App, SetPipe, linkVars, TypeOK
  <2>4. \A a \in Ends, t \in Streams : (a = e /\ t = s) \/ (t \in table'[a] <=> t \in table[a])
    BY <1>1 DEF StreamRemove, App, SetPipe, linkVars, TypeOK
  <2> QED BY <2>1, <2>2, <2>3, <2>4
<1>3. ASSUME NEW t \in Streams, t # s PROVE StreamInv(t)'
  <2>1. Apart(t)
    BY <1>2, <1>3 DEF Apart, Holds
  <2> QED BY <1>1, <2>1, ApartKeeps DEF Inv
<1>4. \A a \in Ends : Peer(a) \in Ends /\ EndInv(a, s) /\ Taken(a, s)' = Taken(a, s)
  BY <1>2, TheEnds DEF Inv, StreamInv, Taken, Holds
<1>5. QuietInv(s) /\ OpenInv(s) /\ Peer("gateway") = "agent" /\ Peer("agent") = "gateway"
  BY TheEnds DEF Inv, StreamInv, Ends
<1>6. QuietInv(s)'
  BY <1>1, <1>2, <1>4, <1>5 DEF QuietInv, Holds
<1>7. OpenInv(s)'
  BY <1>1, <1>2, <1>4, <1>5 DEF OpenInv, QuietInv, HungUp, Unclosed
<1>8. ASSUME NEW a \in Ends PROVE EndInv(a, s)'
  <2>1. TableInv(a, s)'
    BY <1>1, <1>2, <1>4 DEF TableInv, EndInv, Shut
  <2>2. ChunkInv(a, s)'
    BY <1>1, <1>2, <1>4, <1>5 DEF ChunkInv, EndInv, TableInv, Receiving
  <2>3. HeldInv(a, s)'
    BY <1>1, <1>2, <1>4, <1>5 DEF HeldInv, EndInv, TableInv, QuietInv, Holds
  <2>4. CloseInv(a, s)'
    BY <1>1, <1>2, <1>4, <1>5 DEF CloseInv, EndInv, TableInv, Shut, HungUp
  <2> QED BY <2>1, <2>2, <2>3, <2>4 DEF EndInv
<1> QED BY <1>3, <1>6, <1>7, <1>8 DEF Inv, StreamInv

\* A reader takes the chunk that deliver holds, which was counted as taken.
LEMMA ReadKeeps ==
  ASSUME Inv, TypeOK', NEW e \in Ends, NEW s \in Streams, Read(e, s)
  PROVE  Inv'
<1>1. TypeOK /\ "gateway" \in Ends /\ "agent" \in Ends
  BY DEF Inv, Ends
<1>2. /\ wire' = wire /\ closed' = closed /\ pipe' = pipe /\ table' = table
      /\ app' = app /\ sent' = sent /\ ended' = ended
      /\ Holds(e, s) /\ pipe[e][s] = "open" /\ held'[e] = << >>
      /\ \A a \in Ends : a = e \/ held'[a] = held[a]
      /\ got'[e][s] = Append(got[e][s], held[e][1].n)
      /\ \A a \in Ends, t \in Streams : (a = e /\ t = s) \/ got'[a][t] = got[a][t]
  <2>1. /\ wire' = wire /\ closed' = closed /\ pipe' = pipe /\ table' = table
        /\ app' = app /\ sent' = sent /\ ended' = ended
        /\ Holds(e, s) /\ pipe[e][s] = "open"
    BY DEF Read, linkVars, Holds
  <2>2. held'[e] = << >> /\ \A a \in Ends : a = e \/ held'[a] = held[a]
    BY <1>1 DEF Read, TypeOK
  <2>3. got'[e][s] = Append(got[e][s], held[e][1].n)
    BY <1>1 DEF Read, TypeOK
  <2>4. \A a \in Ends, t \in Streams : (a = e /\ t = s) \/ got'[a][t] = got[a][t]
    BY <1>1 DEF Read, TypeOK
  <2> QED BY <2>1, <2>2, <2>3, <2>4
<1>3. ASSUME NEW t \in Streams, t # s PROVE StreamInv(t)'
  <2>1. \A a \in Ends : /\ Holds(a, t)' <=> Holds(a, t)
                        /\ Holds(a, t) => held'[a][1] = held[a][1]
    BY <1>2, <1>3 DEF Holds
  <2>2. Apart(t)
    BY <1>2, <1>3, <2>1 DEF Apart
  <2> QED BY <1>1, <2>2, ApartKeeps DEF Inv
<1>4. \A a \in Ends : Peer(a) \in Ends /\ EndInv(a, s)
  BY TheEnds DEF Inv, StreamInv
<1>5. QuietInv(s) /\ OpenInv(s)
  BY DEF Inv, StreamInv
<1>6. ASSUME NEW a \in Ends PROVE Taken(a, s)' = Taken(a, s)
  <2>1. CASE a = e
    <3>1. got[e][s] \in Seq(Nat) /\ held[e] \in Seq(Frames) /\ held[e] # << >>
      BY <1>1, <1>2 DEF TypeOK, Holds
    <3>2. held[e][1] \in Frames
      BY <3>1
    <3>3. held[e][1].n \in Nat
      BY <3>2 DEF Frames
    <3>4. Len(got'[e][s]) = Len(got[e][s]) + 1 /\ Len(got[e][s]) \in Nat
      BY <1>2, <3>1, <3>3
    <3>5. Taken(e, s) = Len(got[e][s]) + 1
      BY <1>2 DEF Taken
    <3>6. Taken(e, s)' = Len(got'[e][s]) + 0
      BY <1>2 DEF Taken, Holds
    <3> QED BY <2>1, <3>4, <3>5, <3>6
  <2>2. CASE a # e
    BY <1>2, <2>2 DEF Taken, Holds
  <2> QED BY <2>1, <2>2
<1>7. QuietInv(s)'
  BY <1>1, <1>2, <1>5, TheEnds DEF QuietInv, Holds
<1>8. OpenInv(s)'
  BY <1>2, <1>5 DEF OpenInv
<1>9. ASSUME NEW a \in Ends PROVE EndInv(a, s)'
  <2>1. TableInv(a, s)'
    BY <1>2, <1>4 DEF TableInv, EndInv
  <2>2. ChunkInv(a, s)'
    BY <1>2, <1>4, <1>6 DEF ChunkInv, EndInv, Receiving
  <2>3. HeldInv(a, s)'
    BY <1>2, <1>4 DEF HeldInv, EndInv, Holds
  <2>4. CloseInv(a, s)'
    BY <1>2, <1>4 DEF CloseInv, EndInv, Shut
  <2> QED BY <2>1, <2>2, <2>3, <2>4 DEF EndInv
<1> QED BY <1>3, <1>7, <1>8, <1>9 DEF Inv, StreamInv

\* deliver gives up a chunk only for a pipe that is shut.
LEMMA DeliverFailsKeeps ==
  ASSUME Inv, TypeOK', NEW e \in Ends, DeliverFails(e)
  PROVE  Inv'
<1>1. TypeOK /\ "gateway" \in Ends /\ "agent" \in Ends
  BY DEF Inv, Ends
<1>2. /\ wire' = wire /\ closed' = closed /\ pipe' = pipe /\ table' = table
      /\ app' = app /\ sent' = sent /\ got' = got /\ ended' = ended
      /\ held[e] # << >> /\ pipe[e][held[e][1].id] # "open" /\ held'[e] = << >>
      /\ \A a \in Ends : a = e \/ held'[a] = held[a]
  BY <1>1 DEF DeliverFails, linkVars, userVars, TypeOK
<1>3. PICK s \in Streams : s = held[e][1].id
  <2>1. held[e] \in Seq(Frames) /\ held[e] # << >>
    BY <1>1, <1>2 DEF TypeOK
  <2>2. held[e][1] \in Frames
    BY <2>1
  <2> QED BY <2>2 DEF Frames
<1>4. /\ Holds(e, s) /\ pipe[e][s] # "open"
      /\ \A t \in Streams : Holds(e, t) => t = s
  BY <1>2, <1>3 DEF Holds
<1>5. ASSUME NEW t \in Streams, t # s PROVE StreamInv(t)'
  <2>1. \A a \in Ends : /\ Holds(a, t)' <=> Holds(a, t)
                        /\ Holds(a, t) => held'[a][1] = held[a][1]
    BY <1>2, <1>4, <1>5 DEF Holds
  <2>2. Apart(t)
    BY <1>2, <2>1 DEF Apart
  <2> QED BY <1>1, <2>2, ApartKeeps DEF Inv
<1>6. QuietInv(s) /\ OpenInv(s) /\ \A a \in Ends : EndInv(a, s)
  BY <1>3 DEF Inv, StreamInv
<1>7. ~Receiving(e, s)
  BY <1>4, <1>6 DEF Receiving, EndInv, HeldInv, TableInv
<1>8. QuietInv(s)'
  BY <1>1, <1>2, <1>6 DEF QuietInv, Holds
<1>9. OpenInv(s)'
  BY <1>2, <1>6 DEF OpenInv
<1>10. ASSUME NEW a \in Ends PROVE EndInv(a, s)'
  <2>1. TableInv(a, s)'
    BY <1>2, <1>6 DEF TableInv, EndInv
  <2>2. ChunkInv(a, s)'
    <3>1. CASE a = e
      BY <1>2, <1>6, <1>7, <3>1 DEF ChunkInv, EndInv, Receiving
    <3>2. CASE a # e
      <4>1. Taken(a, s)' = Taken(a, s)
        BY <1>2, <3>2 DEF Taken, Holds
      <4> QED BY <1>2, <1>6, <4>1 DEF ChunkInv, EndInv, Receiving
    <3> QED BY <3>1, <3>2
  <2>3. HeldInv(a, s)'
    BY <1>2, <1>6 DEF HeldInv, EndInv, Holds
  <2>4. CloseInv(a, s)'
    BY <1>2, <1>6 DEF CloseInv, EndInv
  <2> QED BY <2>1, <2>2, <2>3, <2>4 DEF EndInv
<1> QED BY <1>5, <1>8, <1>9, <1>10 DEF Inv, StreamInv

\* AgentConn.Close: what was under way is lost, and every stream is shut.
LEMMA CloseConnKeeps ==
  ASSUME Inv, TypeOK', NEW e \in Ends, CloseConn(e)
  PROVE  Inv'
<1>1. TypeOK /\ "gateway" \in Ends /\ "agent" \in Ends
  BY DEF Inv, Ends
<1>2. /\ held' = held /\ app' = app /\ sent' = sent /\ got' = got /\ ended' = ended
      /\ closed' = closed \cup {e}
      /\ wire'[e] = << >> /\ table'[e] = {}
      /\ \A a \in Ends : a = e \/ (wire'[a] = wire[a] /\ table'[a] = table[a] /\ pipe'[a] = pipe[a])
      /\ \A s \in Streams : pipe'[e][s] = IF s \in table[e] THEN "eof" ELSE pipe[e][s]
  BY <1>1 DEF CloseConn, TypeOK
<1> SUFFICES ASSUME NEW s \in Streams PROVE StreamInv(s)'
  BY DEF Inv
<1>3. QuietInv(s) /\ OpenInv(s) /\ \A a \in Ends : Peer(a) \in Ends /\ EndInv(a, s)
  BY TheEnds DEF Inv, StreamInv
<1>4. /\ ~Mentions(<< >>, s) /\ \A typ : ~Has(<< >>, typ, s)
      /\ \A hi \in Nat : Ordered(<< >>, s, hi) /\ Complete(<< >>, s, hi, hi)
      /\ LateLast(<< >>, s) /\ OpenFirst(<< >>, s) /\ LedByOpen(<< >>, s)
  BY NoFrames, Silent
<1>5. \A a \in Ends : Taken(a, s)' = Taken(a, s) /\ sent[a][s] \in Nat
  BY <1>1, <1>2 DEF Taken, Holds, TypeOK
<1>6. QuietInv(s)'
  BY <1>1, <1>2, <1>3, <1>4 DEF QuietInv, Holds
<1>7. OpenInv(s)'
  BY <1>1, <1>2, <1>3, <1>4 DEF OpenInv
<1>8. ASSUME NEW a \in Ends PROVE EndInv(a, s)'
  <2>1. TableInv(a, s)'
    BY <1>2, <1>3 DEF TableInv, EndInv, Shut
  <2>2. ChunkInv(a, s)'
    <3>1. CASE a = e
      <4>1. Receiving(e, s)' => e = "gateway" /\ app["gateway"][s] = "failed"
        BY <1>2, <1>3 DEF Receiving, EndInv, TableInv
      <4>2. (e = "gateway" /\ app["gateway"][s] = "failed") =>
              sent["agent"][s] = 0 /\ Taken(e, s) = 0
        <5> SUFFICES ASSUME e = "gateway", app["gateway"][s] = "failed"
                     PROVE  sent["agent"][s] = 0 /\ Taken(e, s) = 0
          OBVIOUS
        <5>1. sent["agent"][s] = 0 /\ got[e][s] = << >> /\ ~Holds(e, s)
          BY <1>1, <1>3 DEF QuietInv
        <5> QED BY <5>1 DEF Taken
      <4> QED BY <1>2, <1>3, <1>4, <1>5, <3>1, <4>1, <4>2, TheEnds DEF ChunkInv
    <3>2. CASE a # e
      BY <1>2, <1>3, <1>5, <3>2 DEF ChunkInv, EndInv, Receiving
    <3> QED BY <3>1, <3>2
  <2>3. HeldInv(a, s)'
    BY <1>2, <1>3 DEF HeldInv, EndInv, Holds
  <2>4. CloseInv(a, s)'
    BY <1>2, <1>3, <1>4 DEF CloseInv, EndInv, Shut
  <2> QED BY <2>1, <2>2, <2>3, <2>4 DEF EndInv
<1> QED BY <1>6, <1>7, <1>8 DEF StreamInv

\* writeFrame adds its frame to the peer's wire, unless the peer is gone.
LEMMA Written ==
  ASSUME TypeOK, NEW e \in Ends, NEW s, NEW f \in Frames, f.id = s, WriteFrame(e, f)
  PROVE  /\ e \notin closed
         /\ wire'[e] = wire[e]
         /\ \/ Peer(e) \in closed /\ wire' = wire
            \/ Peer(e) \notin closed /\ wire'[Peer(e)] = Append(wire[Peer(e)], f)
         /\ \A a \in Ends, t \in Streams :
              t = s \/ wire'[a] = wire[a] \/ Same(wire'[a], wire[a], t)
<1>1. Peer(e) \in Ends /\ Peer(e) # e /\ \A a \in Ends : a = e \/ a = Peer(e)
  BY TheEnds
<1>2. wire \in [Ends -> Seq(Frames)] /\ wire[Peer(e)] \in Seq(Frames)
  BY <1>1 DEF TypeOK
<1>3. CASE Peer(e) \in closed
  BY <1>3 DEF WriteFrame
<1>4. CASE Peer(e) \notin closed
  <2>1. wire'[Peer(e)] = Append(wire[Peer(e)], f) /\ wire'[e] = wire[e] /\ e \notin closed
    BY <1>1, <1>2, <1>4 DEF WriteFrame
  <2>2. \A t \in Streams : t # s => Same(wire'[Peer(e)], wire[Peer(e)], t)
    BY <1>2, <2>1, AppendSame
  <2> QED BY <1>1, <1>4, <2>1, <2>2
<1> QED BY <1>3, <1>4

\* The Open frame is the first of its stream.
LEMMA OpenSentKeeps ==
  ASSUME Inv, TypeOK', NEW s \in Streams, OpenSent(s)
  PROVE  Inv'
<1>1. /\ TypeOK /\ "gateway" \in Ends /\ "agent" \in Ends
      /\ Peer("gateway") = "agent" /\ Peer("agent") = "gateway"
  BY TheEnds DEF Inv, Ends
<1>2. /\ closed' = closed /\ table' = table /\ pipe' = pipe /\ held' = held
      /\ sent' = sent /\ got' = got /\ ended' = ended
      /\ app["gateway"][s] = "opening" /\ app'["gateway"][s] = "open"
      /\ \A a \in Ends, t \in Streams : (a = "gateway" /\ t = s) \/ app'[a][t] = app[a][t]
  BY <1>1 DEF OpenSent, App, muxVars, TypeOK
<1>3. /\ wire'["gateway"] = wire["gateway"]
      /\ \/ "agent" \in closed /\ wire' = wire
         \/ "agent" \notin closed /\ wire'["agent"] = Append(wire["agent"], Open(s))
      /\ \A a \in Ends, t \in Streams :
           t = s \/ wire'[a] = wire[a] \/ Same(wire'[a], wire[a], t)
  <2>1. Open(s) \in Frames /\ Open(s).id = s
    BY FramesAreFrames DEF Carries
  <2>2. WriteFrame("gateway", Open(s))
    BY DEF OpenSent
  <2> QED BY <1>1, <2>1, <2>2, Written
<1>4. ASSUME NEW t \in Streams, t # s PROVE StreamInv(t)'
  <2>1. Apart(t)
    BY <1>2, <1>3, <1>4 DEF Apart, Holds
  <2> QED BY <1>1, <2>1, ApartKeeps DEF Inv
<1>5. QuietInv(s) /\ OpenInv(s) /\ \A a \in Ends : EndInv(a, s)
  BY DEF Inv, StreamInv
<1>6. /\ app["agent"][s] = "idle" /\ sent["gateway"][s] = 0 /\ ~Mentions(wire["agent"], s)
      /\ got["agent"][s] = << >> /\ ~Holds("agent", s)
  BY <1>1, <1>2, <1>5 DEF QuietInv
<1>7. /\ Ordered(wire'["agent"], s, 0) /\ Complete(wire'["agent"], s, 0, 0)
      /\ LateLast(wire'["agent"], s) /\ OpenFirst(wire'["agent"], s)
      /\ LedByOpen(wire'["agent"], s) /\ ~Has(wire'["agent"], "close", s)
      /\ "agent" \notin closed => Has(wire'["agent"], "open", s)
  <2>1. wire["agent"] \in Seq(Frames) /\ Open(s) \in Frames /\ 0 \in Nat
    BY <1>1, FramesAreFrames DEF TypeOK
  <2>2. /\ ~Chunk(Open(s), s) /\ ~Late(Open(s), s) /\ Carries(Open(s), "open", s)
        /\ ~Carries(Open(s), "close", s) /\ Open(s).typ = "open"
    BY DEF Open, Chunk, Late, Carries
  <2>3. /\ \A typ : ~Has(wire["agent"], typ, s)
        /\ Ordered(wire["agent"], s, 0) /\ Complete(wire["agent"], s, 0, 0)
        /\ LateLast(wire["agent"], s) /\ OpenFirst(wire["agent"], s) /\ LedByOpen(wire["agent"], s)
    BY <1>6, <2>1, Silent
  <2>4. CASE "agent" \in closed
    BY <1>3, <2>3, <2>4
  <2>5. CASE "agent" \notin closed
    <3> DEFINE v == Append(wire["agent"], Open(s))
    <3>1. Ordered(v, s, 0)
      BY <2>1, <2>2, <2>3, AppendOrdered
    <3>2. Complete(v, s, 0, 0)
      BY <2>1, <2>2, <2>3, AppendComplete
    <3>3. LateLast(v, s)
      BY <2>1, <2>2, <2>3, AppendLate
    <3>4. OpenFirst(v, s) /\ LedByOpen(v, s)
      BY <1>6, <2>1, <2>2, <2>3, AppendOpen
    <3>5. ~Has(v, "close", s) /\ Has(v, "open", s)
      BY <2>1, <2>2, <2>3, AppendHas
    <3> QED BY <1>3, <2>5, <3>1, <3>2, <3>3, <3>4, <3>5
  <2> QED BY <2>4, <2>5
<1>8. QuietInv(s)'
  BY <1>1, <1>2, <1>3, <1>5 DEF QuietInv, Holds
<1>9. OpenInv(s)'
  BY <1>1, <1>2, <1>6, <1>7 DEF OpenInv
<1>10. Taken("agent", s) = 0 /\ \A a \in Ends : Taken(a, s)' = Taken(a, s)
  <2>1. Taken("agent", s) = 0
    BY <1>6 DEF Taken
  <2>2. \A a \in Ends : Taken(a, s)' = Taken(a, s)
    BY <1>2 DEF Taken, Holds
  <2> QED BY <2>1, <2>2
<1>11. EndInv("agent", s)'
  <2>1. TableInv("agent", s)'
    BY <1>1, <1>2, <1>5 DEF TableInv, EndInv
  <2>2. ChunkInv("agent", s)'
    BY <1>1, <1>2, <1>6, <1>7, <1>10 DEF ChunkInv
  <2>3. HeldInv("agent", s)'
    BY <1>1, <1>2, <1>5 DEF HeldInv, EndInv, Holds
  <2>4. CloseInv("agent", s)'
    BY <1>1, <1>2, <1>5, <1>6, <1>7 DEF CloseInv, EndInv, TableInv, Shut, HungUp
  <2> QED BY <2>1, <2>2, <2>3, <2>4 DEF EndInv
<1>12. EndInv("gateway", s)'
  <2>1. TableInv("gateway", s)'
    BY <1>1, <1>2, <1>5 DEF TableInv, EndInv
  <2>2. ChunkInv("gateway", s)'
    BY <1>1, <1>2, <1>3, <1>5, <1>10 DEF ChunkInv, EndInv, Receiving
  <2>3. HeldInv("gateway", s)'
    BY <1>1, <1>2, <1>5 DEF HeldInv, EndInv, Holds
  <2>4. CloseInv("gateway", s)'
    BY <1>1, <1>2, <1>3, <1>5 DEF CloseInv, EndInv, Shut
  <2> QED BY <2>1, <2>2, <2>3, <2>4 DEF EndInv
<1>13. \A a \in Ends : EndInv(a, s)'
  BY <1>11, <1>12 DEF Ends
<1> QED BY <1>4, <1>8, <1>9, <1>13 DEF Inv, StreamInv

\* The chunks taken are counted by a natural number.
LEMMA TakenIsNat ==
  ASSUME TypeOK, NEW a \in Ends, NEW s \in Streams
  PROVE  Taken(a, s) \in Nat
<1>1. got[a][s] \in Seq(Nat)
  BY DEF TypeOK
<1>2. Len(got[a][s]) \in Nat
  BY <1>1
<1>3. CASE Holds(a, s)
  <2>1. Taken(a, s) = Len(got[a][s]) + 1
    BY <1>3 DEF Taken
  <2> QED BY <1>2, <2>1
<1>4. CASE ~Holds(a, s)
  <2>1. Taken(a, s) = Len(got[a][s]) + 0
    BY <1>4 DEF Taken
  <2> QED BY <1>2, <2>1
<1> QED BY <1>3, <1>4

\* What a writer knows of the wire it writes to: stream s is announced there as
\* long as the peer has not read the announcement.
LEMMA Announced ==
  ASSUME Inv, NEW e \in Ends, NEW s \in Streams, Peer(e) \notin closed,
         app[e][s] \in Unclosed \cup HungUp \/ (e = "agent" /\ app[e][s] # "idle")
  PROVE  /\ app["agent"][s] # "idle" \/ Has(wire["agent"], "open", s)
         /\ app["gateway"][s] \notin {"idle", "opening", "failed"}
         /\ app["agent"][s] = "idle" => e = "gateway"
<1>1. QuietInv(s) /\ OpenInv(s) /\ (e = "gateway" \/ e = "agent") /\ Peer("gateway") = "agent"
  BY TheEnds DEF Inv, StreamInv, Ends
<1> QED BY <1>1 DEF QuietInv, OpenInv, HungUp, Unclosed

\* A stream's frames do not reach a closed connection.
LEMMA ClosedReceivesNothing ==
  ASSUME Inv, NEW e \in Ends, NEW s \in Streams, e \in closed,
         app[Peer(e)][s] \in {"opening"} \cup Unclosed \cup HungUp
  PROVE  ~Receiving(e, s)
<1>1. QuietInv(s) /\ EndInv(e, s) /\ (e = "gateway" => Peer(e) = "agent")
  BY TheEnds DEF Inv, StreamInv
<1> QED BY <1>1 DEF QuietInv, EndInv, TableInv, Receiving, HungUp, Unclosed

\* stream.Write: the next chunk of a live stream, or a late one.
LEMMA WriteKeeps ==
  ASSUME Inv, TypeOK', NEW e \in Ends, NEW s \in Streams, Write(e, s)
  PROVE  Inv'
<1> DEFINE p == Peer(e)
           live == app[e][s] \in Unclosed
           f == IF live THEN Data(s, sent[e][s] + 1) ELSE Data(s, 0)
<1>1. /\ TypeOK /\ p \in Ends /\ p # e /\ Peer(p) = e /\ \A a \in Ends : a = e \/ a = p
      /\ Peer(e) = p /\ "gateway" \in Ends /\ "agent" \in Ends
      /\ (e = "gateway" /\ p = "agent") \/ (e = "agent" /\ p = "gateway")
  BY TheEnds DEF Inv, Ends
<1>2. sent[e][s] \in Nat /\ sent[p][s] \in Nat /\ wire[p] \in Seq(Frames)
  BY <1>1 DEF TypeOK
<1>3. f \in Frames /\ f.id = s /\ Carries(f, "data", s) /\ f.n = IF live THEN sent[e][s] + 1 ELSE 0
  BY <1>2, FramesAreFrames DEF Carries
<1>4. /\ (live => Chunk(f, s) /\ f.n = sent[e][s] + 1) /\ (~live => ~Chunk(f, s))
      /\ Late(f, s) => ~live
      /\ ~Carries(f, "open", s) /\ ~Carries(f, "close", s)
  BY <1>2, <1>3 DEF Chunk, Late, Carries
<1>5. /\ closed' = closed /\ table' = table /\ pipe' = pipe /\ held' = held
      /\ app' = app /\ got' = got /\ ended' = ended
      /\ app[e][s] \in Unclosed \cup HungUp
      /\ WriteFrame(e, f)
  BY DEF Write, muxVars
<1>6. /\ sent'[e][s] = IF live THEN sent[e][s] + 1 ELSE sent[e][s]
      /\ \A a \in Ends, t \in Streams : (a = e /\ t = s) \/ sent'[a][t] = sent[a][t]
  <2>1. sent' = IF live THEN [sent EXCEPT ![e][s] = sent[e][s] + 1] ELSE sent
    BY DEF Write
  <2>2. CASE live
    BY <1>1, <2>1, <2>2 DEF TypeOK
  <2>3. CASE ~live
    BY <2>1, <2>3
  <2> QED BY <2>2, <2>3
<1> HIDE DEF f, p
<1>7. /\ e \notin closed /\ wire'[e] = wire[e]
      /\ \/ p \in closed /\ wire' = wire
         \/ p \notin closed /\ wire'[p] = Append(wire[p], f)
      /\ \A a \in Ends, t \in Streams :
           t = s \/ wire'[a] = wire[a] \/ Same(wire'[a], wire[a], t)
  BY <1>1, <1>3, <1>5, Written
<1>8. ASSUME NEW t \in Streams, t # s PROVE StreamInv(t)'
  <2>1. Apart(t)
    BY <1>5, <1>6, <1>7, <1>8 DEF Apart, Holds
  <2> QED BY <1>1, <2>1, ApartKeeps DEF Inv
<1>9. QuietInv(s) /\ OpenInv(s) /\ \A a \in Ends : EndInv(a, s)
  BY DEF Inv, StreamInv
<1>10. \A a \in Ends : /\ Taken(a, s)' = Taken(a, s) /\ Taken(a, s) \in Nat
                       /\ Receiving(a, s)' <=> Receiving(a, s)
  <2>1. \A a \in Ends : Taken(a, s) \in Nat
    BY <1>1, TakenIsNat
  <2>2. \A a \in Ends : Taken(a, s)' = Taken(a, s) /\ (Receiving(a, s)' <=> Receiving(a, s))
    BY <1>5 DEF Taken, Holds, Receiving
  <2> QED BY <2>1, <2>2
<1>11. /\ Ordered(wire'[p], s, sent'[e][s])
       /\ Receiving(p, s) => /\ Taken(p, s) <= sent'[e][s]
                             /\ Complete(wire'[p], s, Taken(p, s), sent'[e][s])
       /\ \A typ \in {"open", "close"} : Has(wire'[p], typ, s) <=> Has(wire[p], typ, s)
       /\ pipe[p][s] \in Shut \/ LateLast(wire'[p], s)
       /\ OpenFirst(wire[p], s) => OpenFirst(wire'[p], s)
       /\ (p = "agent" /\ app[p][s] = "idle") => LedByOpen(wire'[p], s)
  <2>1. /\ Ordered(wire[p], s, sent[e][s])
        /\ Receiving(p, s) => /\ Taken(p, s) <= sent[e][s]
                              /\ Complete(wire[p], s, Taken(p, s), sent[e][s])
        /\ pipe[p][s] \in Shut \/ LateLast(wire[p], s)
        /\ (app[e][s] \in HungUp /\ closed = {}) => pipe[p][s] \in Shut \/ Has(wire[p], "close", s)
        /\ Has(wire[p], "close", s) => app[e][s] \in HungUp
        /\ (p = "agent" /\ app[p][s] = "idle") => LedByOpen(wire[p], s)
    BY <1>1, <1>9 DEF EndInv, ChunkInv, CloseInv, OpenInv
  <2>2. CASE p \in closed
    <3>1. ~Receiving(p, s)
      BY <1>1, <1>5, <2>2, ClosedReceivesNothing
    <3>2. Ordered(wire[p], s, sent'[e][s])
      <4>1. \A i \in 1..Len(wire[p]) : wire[p][i].n \in Nat
        BY <1>2, Numbers
      <4> QED BY <1>2, <1>6, <2>1, <4>1 DEF Ordered
    <3> QED BY <1>1, <1>7, <2>1, <2>2, <3>1, <3>2
  <2>3. CASE p \notin closed
    <3>1. wire'[p] = Append(wire[p], f)
      BY <1>7, <2>3
    <3>2. Ordered(wire'[p], s, sent'[e][s])
      BY <1>2, <1>3, <1>4, <1>6, <2>1, <3>1, AppendOrdered DEF HungUp, Unclosed
    <3>3. ASSUME Receiving(p, s)
          PROVE  Taken(p, s) <= sent'[e][s] /\ Complete(wire'[p], s, Taken(p, s), sent'[e][s])
      BY <1>1, <1>2, <1>3, <1>4, <1>6, <1>10, <2>1, <3>1, <3>3, AppendComplete
    <3>4. \A typ \in {"open", "close"} : Has(wire'[p], typ, s) <=> Has(wire[p], typ, s)
      BY <1>2, <1>3, <1>4, <3>1, AppendHas
    <3>5. pipe[p][s] \in Shut \/ LateLast(wire'[p], s)
      <4>1. closed = {}
        <5>1. closed \subseteq Ends
          BY <1>1 DEF TypeOK
        <5> QED BY <1>1, <1>7, <2>3, <5>1
      <4> QED BY <1>2, <1>3, <1>4, <1>5, <2>1, <3>1, <4>1, AppendLate
    <3>6. OpenFirst(wire[p], s) => OpenFirst(wire'[p], s)
      BY <1>2, <1>3, <1>4, <3>1, AppendOpen
    <3>7. (p = "agent" /\ app[p][s] = "idle") => LedByOpen(wire'[p], s)
      BY <1>1, <1>2, <1>3, <1>5, <2>1, <2>3, <3>1, Announced, AppendOpen
    <3> QED BY <3>2, <3>3, <3>4, <3>5, <3>6, <3>7
  <2> QED BY <2>2, <2>3
<1>12. QuietInv(s)'
  BY <1>1, <1>5, <1>6, <1>7, <1>9 DEF QuietInv, Holds, HungUp, Unclosed
<1>13. OpenInv(s)'
  <2>1. CASE e = "gateway"
    BY <1>1, <1>5, <1>9, <1>11, <2>1 DEF OpenInv
  <2>2. CASE e = "agent"
    BY <1>1, <1>5, <1>7, <1>9, <2>2 DEF OpenInv
  <2> QED BY <1>1, <2>1, <2>2
<1>14. ASSUME NEW a \in Ends PROVE EndInv(a, s)'
  <2>1. TableInv(a, s)'
    BY <1>5, <1>9 DEF TableInv, EndInv
  <2>2. ChunkInv(a, s)'
    <3>1. CASE a = p
      BY <1>1, <1>10, <1>11, <3>1 DEF ChunkInv
    <3>2. CASE a = e
      BY <1>1, <1>6, <1>7, <1>9, <1>10, <3>2 DEF ChunkInv, EndInv
    <3> QED BY <1>1, <3>1, <3>2
  <2>3. HeldInv(a, s)'
    BY <1>5, <1>9 DEF HeldInv, EndInv, Holds
  <2>4. CloseInv(a, s)'
    <3>1. CASE a = p
      BY <1>1, <1>5, <1>6, <1>9, <1>11, <3>1 DEF CloseInv, EndInv, HungUp, Unclosed
    <3>2. CASE a = e
      BY <1>1, <1>5, <1>6, <1>7, <1>9, <3>2 DEF CloseInv, EndInv
    <3> QED BY <1>1, <3>1, <3>2
  <2> QED BY <2>1, <2>2, <2>3, <2>4 DEF EndInv
<1> QED BY <1>8, <1>12, <1>13, <1>14 DEF Inv, StreamInv

\* The Close frame comes after every chunk that counts as sent; when it cannot be
\* written the connection is gone.
LEMMA CloseSentKeeps ==
  ASSUME Inv, TypeOK', NEW e \in Ends, NEW s \in Streams, CloseSent(e, s)
  PROVE  Inv'
<1> DEFINE p == Peer(e)
           f == CloseFrame(s)
<1>1. /\ TypeOK /\ p \in Ends /\ p # e /\ Peer(p) = e /\ \A a \in Ends : a = e \/ a = p
      /\ Peer(e) = p /\ "gateway" \in Ends /\ "agent" \in Ends
      /\ (e = "gateway" /\ p = "agent") \/ (e = "agent" /\ p = "gateway")
  BY TheEnds DEF Inv, Ends
<1>2. sent[e][s] \in Nat /\ sent[p][s] \in Nat /\ wire[p] \in Seq(Frames)
  BY <1>1 DEF TypeOK
<1>3. f \in Frames /\ f.id = s /\ Carries(f, "close", s)
  BY FramesAreFrames DEF Carries
<1>4. ~Chunk(f, s) /\ ~Late(f, s) /\ ~Carries(f, "open", s)
  BY <1>3 DEF Chunk, Late, Carries
<1>5. /\ closed' = closed /\ table' = table /\ pipe' = pipe /\ held' = held
      /\ sent' = sent /\ got' = got /\ ended' = ended
      /\ app[e][s] = "hanging"
      /\ WriteFrame(e, f) \/ (closed # {} /\ wire' = wire)
  BY DEF CloseSent, App, muxVars
<1>6. /\ app'[e][s] = "closing"
      /\ \A a \in Ends, t \in Streams : (a = e /\ t = s) \/ app'[a][t] = app[a][t]
  BY <1>1 DEF CloseSent, App, TypeOK
<1> HIDE DEF f, p
<1>7. /\ wire'[e] = wire[e]
      /\ \/ closed # {} /\ wire' = wire
         \/ p \notin closed /\ wire'[p] = Append(wire[p], f)
      /\ \A a \in Ends, t \in Streams :
           t = s \/ wire'[a] = wire[a] \/ Same(wire'[a], wire[a], t)
  <2>1. CASE WriteFrame(e, f)
    BY <1>1, <1>3, <2>1, Written
  <2>2. CASE closed # {} /\ wire' = wire
    BY <2>2
  <2> QED BY <1>5, <2>1, <2>2
<1>8. ASSUME NEW t \in Streams, t # s PROVE StreamInv(t)'
  <2>1. Apart(t)
    BY <1>5, <1>6, <1>7, <1>8 DEF Apart, Holds
  <2> QED BY <1>1, <2>1, ApartKeeps DEF Inv
<1>9. QuietInv(s) /\ OpenInv(s) /\ \A a \in Ends : EndInv(a, s)
  BY DEF Inv, StreamInv
<1>10. \A a \in Ends : /\ Taken(a, s)' = Taken(a, s)
                       /\ Receiving(a, s)' <=> Receiving(a, s)
  BY <1>5, <1>6 DEF Taken, Holds, Receiving
<1>11. /\ Ordered(wire'[p], s, sent[e][s])
       /\ Receiving(p, s) => Complete(wire'[p], s, Taken(p, s), sent[e][s])
       /\ closed = {} => Has(wire'[p], "close", s)
       /\ Has(wire'[p], "open", s) <=> Has(wire[p], "open", s)
       /\ pipe[p][s] \in Shut \/ LateLast(wire'[p], s)
       /\ OpenFirst(wire[p], s) => OpenFirst(wire'[p], s)
       /\ (p = "agent" /\ app[p][s] = "idle") => LedByOpen(wire'[p], s)
  <2>1. /\ Ordered(wire[p], s, sent[e][s])
        /\ Receiving(p, s) => Complete(wire[p], s, Taken(p, s), sent[e][s])
        /\ pipe[p][s] \in Shut \/ LateLast(wire[p], s)
        /\ (p = "agent" /\ app[p][s] = "idle") => LedByOpen(wire[p], s)
    BY <1>1, <1>9 DEF EndInv, ChunkInv, CloseInv, OpenInv
  <2>2. CASE closed # {} /\ wire' = wire
    BY <2>1, <2>2
  <2>3. CASE p \notin closed /\ wire'[p] = Append(wire[p], f)
    <3>1. Ordered(wire'[p], s, sent[e][s])
      BY <1>2, <1>3, <1>4, <2>1, <2>3, AppendOrdered
    <3>2. Receiving(p, s) => Complete(wire'[p], s, Taken(p, s), sent[e][s])
      BY <1>1, <1>2, <1>3, <1>4, <2>1, <2>3, AppendComplete, TakenIsNat
    <3>3. Has(wire'[p], "close", s) /\ (Has(wire'[p], "open", s) <=> Has(wire[p], "open", s))
      BY <1>2, <1>3, <1>4, <2>3, AppendHas
    <3>4. pipe[p][s] \in Shut \/ LateLast(wire'[p], s)
      BY <1>2, <1>3, <1>4, <2>1, <2>3, AppendLate
    <3>5. OpenFirst(wire[p], s) => OpenFirst(wire'[p], s)
      BY <1>2, <1>3, <1>4, <2>3, AppendOpen
    <3>6. (p = "agent" /\ app[p][s] = "idle") => LedByOpen(wire'[p], s)
      BY <1>1, <1>2, <1>3, <1>5, <2>1, <2>3, Announced, AppendOpen DEF Unclosed
    <3> QED BY <3>1, <3>2, <3>3, <3>4, <3>5, <3>6
  <2> QED BY <1>7, <2>2, <2>3
<1>12. QuietInv(s)'
  BY <1>1, <1>5, <1>6, <1>7, <1>9 DEF QuietInv, Holds
<1>13. OpenInv(s)'
  <2>1. CASE e = "gateway"
    BY <1>1, <1>5, <1>6, <1>9, <1>11, <2>1 DEF OpenInv, HungUp, Unclosed
  <2>2. CASE e = "agent"
    BY <1>1, <1>5, <1>6, <1>7, <1>9, <2>2 DEF OpenInv
  <2> QED BY <1>1, <2>1, <2>2
<1>14. ASSUME NEW a \in Ends PROVE EndInv(a, s)'
  <2>1. TableInv(a, s)'
    BY <1>5, <1>6, <1>9 DEF TableInv, EndInv
  <2>2. ChunkInv(a, s)'
    <3>1. CASE a = p
      BY <1>1, <1>5, <1>9, <1>10, <1>11, <3>1 DEF ChunkInv, EndInv
    <3>2. CASE a = e
      BY <1>1, <1>5, <1>7, <1>9, <1>10, <3>2 DEF ChunkInv, EndInv
    <3> QED BY <1>1, <3>1, <3>2
  <2>3. HeldInv(a, s)'
    BY <1>5, <1>9 DEF HeldInv, EndInv, Holds
  <2>4. CloseInv(a, s)'
    <3>1. CASE a = p
      BY <1>1, <1>5, <1>6, <1>9, <1>11, <3>1 DEF CloseInv, EndInv, HungUp
    <3>2. CASE a = e
      BY <1>1, <1>5, <1>6, <1>7, <1>9, <3>2 DEF CloseInv, EndInv
    <3> QED BY <1>1, <3>1, <3>2
  <2> QED BY <2>1, <2>2, <2>3, <2>4 DEF EndInv
<1> QED BY <1>8, <1>12, <1>13, <1>14 DEF Inv, StreamInv

\* ReadLoop takes the frame at the front of the wire.
LEMMA TakenOff ==
  ASSUME TypeOK, NEW e \in Ends, NEW typ, NextFrame(e, typ)
  PROVE  /\ wire[e] \in Seq(Frames) /\ wire[e] # << >> /\ wire'[e] = Tail(wire[e])
         /\ Head(wire[e]) \in Frames /\ Head(wire[e]).id \in Streams
         /\ Head(wire[e]).n \in Nat /\ Head(wire[e]).typ = typ
         /\ e \notin closed /\ held[e] = << >>
         /\ \A a \in Ends : a = e \/ wire'[a] = wire[a]
         /\ \A a \in Ends, t \in Streams :
              t = Head(wire[e]).id \/ wire'[a] = wire[a] \/ Same(wire'[a], wire[a], t)
<1>1. wire[e] \in Seq(Frames) /\ wire[e] # << >>
  BY DEF TypeOK, NextFrame
<1>2. wire'[e] = Tail(wire[e]) /\ \A a \in Ends : a = e \/ wire'[a] = wire[a]
  BY DEF TypeOK, NextFrame
<1>3. Head(wire[e]) \in Frames
  BY <1>1
<1>4. Head(wire[e]).id \in Streams /\ Head(wire[e]).n \in Nat
  BY <1>3 DEF Frames
<1>5. \A t \in Streams : t # Head(wire[e]).id => Same(wire'[e], wire[e], t)
  BY <1>1, <1>2, TailSame
<1> QED BY <1>1, <1>2, <1>3, <1>4, <1>5 DEF NextFrame

\* A Data or Close frame that is read was sent for a stream that the reading end
\* has heard of, so it reaches the table unless the pipe is already shut.
LEMMA FrameIsKnown ==
  ASSUME Inv, NEW e \in Ends, wire[e] \in Seq(Frames), wire[e] # << >>,
         NEW s \in Streams, s = Head(wire[e]).id, Head(wire[e]).typ # "open"
  PROVE  /\ app["agent"][s] # "idle"
         /\ app["gateway"][s] \notin {"idle", "opening", "failed"}
         /\ pipe[e][s] # "none" /\ (pipe[e][s] = "open" <=> s \in table[e])
         /\ ~Has(wire["agent"], "open", s)
<1>1. QuietInv(s) /\ OpenInv(s) /\ EndInv(e, s) /\ (e = "gateway" \/ e = "agent")
  BY DEF Inv, StreamInv, Ends
<1>2. Mentions(wire[e], s)
  BY TailHas
<1>3. LedByOpen(wire[e], s) => FALSE
  BY TailOpen
<1>4. app["agent"][s] # "idle"
  BY <1>1, <1>2, <1>3 DEF QuietInv, OpenInv
<1>5. app["gateway"][s] \notin {"idle", "opening", "failed"}
  BY <1>1, <1>4 DEF QuietInv
<1> QED BY <1>1, <1>4, <1>5 DEF EndInv, TableInv, OpenInv

\* The agent reads the Open frame: nothing of the stream came before it.
LEMMA ReadOpenKeeps ==
  ASSUME Inv, TypeOK', NEW e \in Ends, ReadOpen(e)
  PROVE  Inv'
<1>1. /\ TypeOK /\ e = "agent" /\ "gateway" \in Ends /\ "agent" \in Ends
      /\ Peer("gateway") = "agent" /\ Peer("agent") = "gateway"
      /\ \A a \in Ends : a = "gateway" \/ a = "agent"
  BY TheEnds DEF Inv, Ends, ReadOpen
<1> DEFINE w == wire["agent"]
<1>2. /\ w \in Seq(Frames) /\ w # << >> /\ wire'["agent"] = Tail(w)
      /\ Head(w).id \in Streams /\ Head(w).typ = "open"
      /\ "agent" \notin closed /\ held["agent"] = << >>
      /\ wire'["gateway"] = wire["gateway"]
      /\ \A a \in Ends, t \in Streams :
           t = Head(w).id \/ wire'[a] = wire[a] \/ Same(wire'[a], wire[a], t)
  <2>1. NextFrame("agent", "open")
    BY <1>1 DEF ReadOpen
  <2> QED BY <1>1, <2>1, TakenOff
<1>3. PICK s \in Streams : s = Head(w).id
  BY <1>2
<1>4. /\ closed' = closed /\ held' = held /\ sent' = sent /\ got' = got /\ ended' = ended
      /\ app["agent"][s] = "idle" /\ app'["agent"][s] = "opening"
      /\ pipe'["agent"][s] = "open" /\ s \in table'["agent"]
      /\ \A a \in Ends, t \in Streams : (a = e /\ t = s) \/ app'[a][t] = app[a][t]
      /\ \A a \in Ends, t \in Streams : (a = e /\ t = s) \/ pipe'[a][t] = pipe[a][t]
      /\ \A a \in Ends, t \in Streams : (a = e /\ t = s) \/ (t \in table'[a] <=> t \in table[a])
  <2>1. /\ closed' = closed /\ held' = held /\ sent' = sent /\ got' = got /\ ended' = ended
        /\ app["agent"][s] = "idle"
    BY <1>1, <1>3 DEF ReadOpen, App
  <2>2. /\ app'["agent"][s] = "opening"
        /\ \A a \in Ends, t \in Streams : (a = e /\ t = s) \/ app'[a][t] = app[a][t]
    BY <1>1, <1>3 DEF ReadOpen, App, TypeOK
  <2>3. /\ pipe'["agent"][s] = "open"
        /\ \A a \in Ends, t \in Streams : (a = e /\ t = s) \/ pipe'[a][t] = pipe[a][t]
    BY <1>1, <1>3 DEF ReadOpen, SetPipe, TypeOK
  <2>4. /\ s \in table'["agent"]
        /\ \A a \in Ends, t \in Streams : (a = e /\ t = s) \/ (t \in table'[a] <=> t \in table[a])
    BY <1>1, <1>3 DEF ReadOpen, TypeOK
  <2> QED BY <2>1, <2>2, <2>3, <2>4
<1> HIDE DEF w
<1>5. ASSUME NEW t \in Streams, t # s PROVE StreamInv(t)'
  <2>1. Apart(t)
    BY <1>2, <1>3, <1>4, <1>5 DEF Apart, Holds
  <2> QED BY <1>1, <2>1, ApartKeeps DEF Inv
<1>6. QuietInv(s) /\ OpenInv(s) /\ (\A a \in Ends : EndInv(a, s)) /\ wire["agent"] = w
  BY DEF Inv, StreamInv, w
<1>7. /\ Carries(Head(w), "open", s) /\ ~Carries(Head(w), "close", s)
      /\ ~Chunk(Head(w), s)
  BY <1>2, <1>3 DEF Carries, Chunk
<1>8. /\ sent["agent"][s] \in Nat /\ sent["gateway"][s] \in Nat /\ Taken("agent", s) \in Nat
      /\ \A a \in Ends : Taken(a, s)' = Taken(a, s)
      /\ Receiving("agent", s) /\ (Receiving("gateway", s)' <=> Receiving("gateway", s))
  <2>1. sent["agent"][s] \in Nat /\ sent["gateway"][s] \in Nat /\ Taken("agent", s) \in Nat
    <3>1. Taken("agent", s) \in Nat
      BY <1>1, TakenIsNat
    <3> QED BY <1>1, <3>1 DEF TypeOK
  <2>2. \A a \in Ends : Taken(a, s)' = Taken(a, s)
    BY <1>4 DEF Taken, Holds
  <2>3. Receiving("agent", s) /\ (Receiving("gateway", s)' <=> Receiving("gateway", s))
    BY <1>1, <1>2, <1>4 DEF Receiving
  <2> QED BY <2>1, <2>2, <2>3
<1>9. /\ Mentions(w, s) /\ OpenFirst(Tail(w), s) /\ ~Has(Tail(w), "open", s)
      /\ Has(Tail(w), "close", s) <=> Has(w, "close", s)
      /\ Ordered(Tail(w), s, sent["gateway"][s])
      /\ Complete(Tail(w), s, Taken("agent", s), sent["gateway"][s])
      /\ LateLast(Tail(w), s)
  <2>1. /\ OpenFirst(w, s) /\ Ordered(w, s, sent["gateway"][s])
        /\ Complete(w, s, Taken("agent", s), sent["gateway"][s])
        /\ LateLast(w, s)
    BY <1>1, <1>4, <1>6, <1>8 DEF OpenInv, EndInv, ChunkInv, CloseInv, TableInv, Shut
  <2>2. /\ Mentions(w, s) /\ OpenFirst(Tail(w), s) /\ ~Has(Tail(w), "open", s)
        /\ Has(Tail(w), "close", s) <=> Has(w, "close", s)
    BY <1>2, <1>3, <1>7, <2>1, TailHas, TailOpen
  <2>3. Ordered(Tail(w), s, sent["gateway"][s])
    BY <1>2, <1>8, <2>1, TailOrdered
  <2>4. Complete(Tail(w), s, Taken("agent", s), sent["gateway"][s])
    BY <1>2, <1>7, <1>8, <2>1, TailComplete
  <2>5. LateLast(Tail(w), s)
    BY <1>2, <1>7, <2>1, TailLate
  <2> QED BY <2>2, <2>3, <2>4, <2>5
<1>10. QuietInv(s)'
  BY <1>1, <1>4, <1>6, <1>9 DEF QuietInv
<1>11. OpenInv(s)'
  BY <1>1, <1>2, <1>4, <1>9 DEF OpenInv
<1>12. EndInv("agent", s)'
  <2>1. TableInv("agent", s)'
    BY <1>1, <1>2, <1>4, <1>6 DEF TableInv, EndInv, Shut
  <2>2. ChunkInv("agent", s)'
    BY <1>1, <1>2, <1>4, <1>6, <1>8, <1>9 DEF ChunkInv, EndInv
  <2>3. HeldInv("agent", s)'
    BY <1>1, <1>2, <1>4 DEF HeldInv, Holds
  <2>4. CloseInv("agent", s)'
    BY <1>1, <1>2, <1>4, <1>6, <1>9 DEF CloseInv, EndInv, TableInv, Shut
  <2> QED BY <2>1, <2>2, <2>3, <2>4 DEF EndInv
<1>13. EndInv("gateway", s)'
  <2>1. TableInv("gateway", s)'
    BY <1>1, <1>4, <1>6 DEF TableInv, EndInv
  <2>2. ChunkInv("gateway", s)'
    BY <1>1, <1>2, <1>4, <1>6, <1>8 DEF ChunkInv, EndInv
  <2>3. HeldInv("gateway", s)'
    BY <1>1, <1>4, <1>6 DEF HeldInv, EndInv, Holds
  <2>4. CloseInv("gateway", s)'
    BY <1>1, <1>2, <1>4, <1>6 DEF CloseInv, EndInv, HungUp
  <2> QED BY <2>1, <2>2, <2>3, <2>4 DEF EndInv
<1>14. \A a \in Ends : EndInv(a, s)'
  BY <1>1, <1>12, <1>13
<1> QED BY <1>5, <1>10, <1>11, <1>14 DEF Inv, StreamInv

\* ReadLoop takes a chunk: it is the next one if the stream is in the table, and
\* the stream is shut here if it is not.
LEMMA ReadDataKeeps ==
  ASSUME Inv, TypeOK', NEW e \in Ends, ReadData(e)
  PROVE  Inv'
<1> DEFINE p == Peer(e)
           w == wire[e]
<1>1. /\ TypeOK /\ p \in Ends /\ p # e /\ Peer(p) = e /\ \A a \in Ends : a = e \/ a = p
      /\ Peer(e) = p /\ "gateway" \in Ends /\ "agent" \in Ends
      /\ (e = "gateway" /\ p = "agent") \/ (e = "agent" /\ p = "gateway")
  BY TheEnds DEF Inv, Ends
<1>2. /\ w \in Seq(Frames) /\ w # << >> /\ wire'[e] = Tail(w)
      /\ Head(w) \in Frames /\ Head(w).id \in Streams /\ Head(w).n \in Nat /\ Head(w).typ = "data"
      /\ e \notin closed /\ held[e] = << >>
      /\ \A a \in Ends : a = e \/ wire'[a] = wire[a]
      /\ \A a \in Ends, t \in Streams :
           t = Head(w).id \/ wire'[a] = wire[a] \/ Same(wire'[a], wire[a], t)
  <2>1. NextFrame(e, "data")
    BY DEF ReadData
  <2> QED BY <1>1, <2>1, TakenOff
<1>3. PICK s \in Streams : s = Head(w).id
  BY <1>2
<1>4. /\ closed' = closed /\ table' = table /\ pipe' = pipe
      /\ app' = app /\ sent' = sent /\ got' = got /\ ended' = ended
      /\ held'[e] = IF s \in table[e] THEN <<Head(w)>> ELSE << >>
      /\ \A a \in Ends : a = e \/ held'[a] = held[a]
  BY <1>1, <1>3 DEF ReadData, userVars, TypeOK
<1> HIDE DEF w, p
<1>5. \A t \in Streams : ~Holds(e, t) /\ (Holds(e, t)' <=> t = s /\ s \in table[e])
  <2>1. <<Head(w)>> # << >> /\ <<Head(w)>>[1] = Head(w)
    OBVIOUS
  <2> QED BY <1>2, <1>3, <1>4, <2>1 DEF Holds
<1>6. ASSUME NEW t \in Streams, t # s PROVE StreamInv(t)'
  <2>1. \A a \in Ends : /\ Holds(a, t)' <=> Holds(a, t)
                        /\ Holds(a, t) => held'[a][1] = held[a][1]
    BY <1>4, <1>5, <1>6 DEF Holds
  <2>2. Apart(t)
    BY <1>2, <1>3, <1>4, <1>6, <2>1 DEF Apart
  <2> QED BY <1>1, <2>2, ApartKeeps DEF Inv
<1>7. QuietInv(s) /\ OpenInv(s) /\ (\A a \in Ends : EndInv(a, s)) /\ wire[e] = w
  BY DEF Inv, StreamInv, w
<1>8. /\ app["agent"][s] # "idle" /\ app["gateway"][s] \notin {"idle", "opening", "failed"}
      /\ pipe[e][s] # "none" /\ (pipe[e][s] = "open" <=> s \in table[e])
      /\ ~Has(wire["agent"], "open", s)
  BY <1>2, <1>3, <1>7, FrameIsKnown
<1>9. /\ sent[p][s] \in Nat /\ Len(got[e][s]) \in Nat /\ Taken(e, s) = Len(got[e][s])
      /\ Taken(p, s)' = Taken(p, s)
      /\ \A a \in Ends : Receiving(a, s)' <=> Receiving(a, s)
      /\ Receiving(e, s) <=> s \in table[e]
  <2>1. sent[p][s] \in Nat /\ got[e][s] \in Seq(Nat)
    BY <1>1 DEF TypeOK
  <2>2. Len(got[e][s]) \in Nat
    BY <2>1
  <2>3. Taken(e, s) = Len(got[e][s]) + 0
    BY <1>5 DEF Taken
  <2>4. Taken(p, s)' = Taken(p, s)
    BY <1>1, <1>4 DEF Taken, Holds
  <2>5. /\ \A a \in Ends : Receiving(a, s)' <=> Receiving(a, s)
        /\ Receiving(e, s) <=> s \in table[e]
    BY <1>4, <1>8 DEF Receiving
  <2> QED BY <2>1, <2>2, <2>3, <2>4, <2>5
<1>10. /\ ~Carries(Head(w), "close", s) /\ ~Carries(Head(w), "open", s) /\ Carries(Head(w), "data", s)
       /\ Chunk(Head(w), s) \/ Late(Head(w), s)
  BY <1>2, <1>3 DEF Carries, Chunk, Late
<1>11. /\ Ordered(w, s, sent[p][s])
       /\ s \in table[e] => /\ Taken(e, s) <= sent[p][s] /\ LateLast(w, s)
                            /\ Complete(w, s, Taken(e, s), sent[p][s])
  BY <1>1, <1>7, <1>8, <1>9 DEF EndInv, ChunkInv, CloseInv, Shut
<1>12. /\ Ordered(Tail(w), s, sent[p][s])
       /\ \A typ \in {"open", "close"} : Has(Tail(w), typ, s) <=> Has(w, typ, s)
       /\ LateLast(w, s) => LateLast(Tail(w), s)
       /\ OpenFirst(w, s) => OpenFirst(Tail(w), s)
  <2>1. Ordered(Tail(w), s, sent[p][s])
    BY <1>2, <1>9, <1>11, TailOrdered
  <2>2. \A typ \in {"open", "close"} : Has(Tail(w), typ, s) <=> Has(w, typ, s)
    BY <1>2, <1>10, TailHas
  <2>3. LateLast(w, s) => LateLast(Tail(w), s)
    BY <1>2, <1>10, TailLate
  <2>4. OpenFirst(w, s) => OpenFirst(Tail(w), s)
    BY <1>2, TailOpen
  <2> QED BY <2>1, <2>2, <2>3, <2>4
<1>13. s \in table[e] =>
         /\ Head(w).n = Len(got[e][s]) + 1 /\ Taken(e, s)' = Taken(e, s) + 1
         /\ Taken(e, s) + 1 <= sent[p][s]
         /\ Complete(Tail(w), s, Taken(e, s) + 1, sent[p][s])
  <2> SUFFICES ASSUME s \in table[e]
               PROVE  /\ Head(w).n = Len(got[e][s]) + 1 /\ Taken(e, s)' = Taken(e, s) + 1
                      /\ Taken(e, s) + 1 <= sent[p][s]
                      /\ Complete(Tail(w), s, Taken(e, s) + 1, sent[p][s])
    OBVIOUS
  <2>1. Chunk(Head(w), s)
    BY <1>2, <1>10, <1>11, TailLate
  <2>2. /\ Head(w).n = Taken(e, s) + 1 /\ Taken(e, s) + 1 <= sent[p][s]
        /\ Complete(Tail(w), s, Taken(e, s) + 1, sent[p][s])
    BY <1>2, <1>9, <1>11, <2>1, TailComplete
  <2>3. Taken(e, s)' = Len(got'[e][s]) + 1
    BY <1>5 DEF Taken
  <2> QED BY <1>4, <1>9, <2>2, <2>3
<1>14. QuietInv(s)'
  BY <1>1, <1>4, <1>8 DEF QuietInv
<1>15. OpenInv(s)'
  BY <1>1, <1>2, <1>4, <1>7, <1>8, <1>12 DEF OpenInv
<1>16. ASSUME NEW a \in Ends PROVE EndInv(a, s)'
  <2>1. TableInv(a, s)'
    BY <1>4, <1>7 DEF TableInv, EndInv
  <2>2. ChunkInv(a, s)'
    <3>1. CASE a = e
      BY <1>1, <1>2, <1>4, <1>9, <1>12, <1>13, <3>1 DEF ChunkInv
    <3>2. CASE a = p
      BY <1>1, <1>2, <1>4, <1>7, <1>9, <3>2 DEF ChunkInv, EndInv
    <3> QED BY <1>1, <3>1, <3>2
  <2>3. HeldInv(a, s)'
    <3>1. CASE a = e
      <4>1. s \in table[e] => held'[e][1] = Head(w)
        BY <1>4
      <4> QED BY <1>4, <1>5, <1>8, <1>13, <3>1, <4>1 DEF HeldInv
    <3>2. CASE a # e
      BY <1>4, <1>7, <3>2 DEF HeldInv, EndInv, Holds
    <3> QED BY <3>1, <3>2
  <2>4. CloseInv(a, s)'
    <3>1. CASE a = e
      BY <1>1, <1>2, <1>4, <1>7, <1>12, <3>1 DEF CloseInv, EndInv
    <3>2. CASE a = p
      BY <1>1, <1>2, <1>4, <1>7, <3>2 DEF CloseInv, EndInv
    <3> QED BY <1>1, <3>1, <3>2
  <2> QED BY <2>1, <2>2, <2>3, <2>4 DEF EndInv
<1> QED BY <1>6, <1>14, <1>15, <1>16 DEF Inv, StreamInv

\* ReadLoop takes a Close frame: every chunk sent before it has been read.
LEMMA ReadCloseKeeps ==
  ASSUME Inv, TypeOK', NEW e \in Ends, ReadClose(e)
  PROVE  Inv'
<1> DEFINE p == Peer(e)
           w == wire[e]
<1>1. /\ TypeOK /\ p \in Ends /\ p # e /\ Peer(p) = e /\ \A a \in Ends : a = e \/ a = p
      /\ Peer(e) = p /\ "gateway" \in Ends /\ "agent" \in Ends
      /\ (e = "gateway" /\ p = "agent") \/ (e = "agent" /\ p = "gateway")
  BY TheEnds DEF Inv, Ends
<1>2. /\ w \in Seq(Frames) /\ w # << >> /\ wire'[e] = Tail(w)
      /\ Head(w).id \in Streams /\ Head(w).typ = "close"
      /\ e \notin closed /\ held[e] = << >>
      /\ \A a \in Ends : a = e \/ wire'[a] = wire[a]
      /\ \A a \in Ends, t \in Streams :
           t = Head(w).id \/ wire'[a] = wire[a] \/ Same(wire'[a], wire[a], t)
  <2>1. NextFrame(e, "close")
    BY DEF ReadClose
  <2> QED BY <1>1, <2>1, TakenOff
<1>3. PICK s \in Streams : s = Head(w).id
  BY <1>2
<1>4. /\ closed' = closed /\ held' = held
      /\ app' = app /\ sent' = sent /\ got' = got /\ ended' = ended
      /\ pipe'[e][s] = IF s \in table[e] THEN "eof" ELSE pipe[e][s]
      /\ s \notin table'[e]
      /\ \A a \in Ends, t \in Streams : (a = e /\ t = s) \/ pipe'[a][t] = pipe[a][t]
      /\ \A a \in Ends, t \in Streams : (a = e /\ t = s) \/ (t \in table'[a] <=> t \in table[a])
  <2>1. /\ closed' = closed /\ held' = held
        /\ app' = app /\ sent' = sent /\ got' = got /\ ended' = ended
    BY DEF ReadClose, userVars
  <2>2. /\ pipe'[e][s] = IF s \in table[e] THEN "eof" ELSE pipe[e][s]
        /\ \A a \in Ends, t \in Streams : (a = e /\ t = s) \/ pipe'[a][t] = pipe[a][t]
    <3> DEFINE v == IF s \in table[e] THEN "eof" ELSE pipe[e][s]
    <3>1. pipe' = [pipe EXCEPT ![e][s] = v]
      BY <1>3 DEF ReadClose, SetPipe
    <3> HIDE DEF v
    <3>2. pipe'[e][s] = v /\ \A a \in Ends, t \in Streams : (a = e /\ t = s) \/ pipe'[a][t] = pipe[a][t]
      BY <1>1, <3>1 DEF TypeOK
    <3> QED BY <3>2 DEF v
  <2>3. /\ s \notin table'[e]
        /\ \A a \in Ends, t \in Streams : (a = e /\ t = s) \/ (t \in table'[a] <=> t \in table[a])
    BY <1>1, <1>3 DEF ReadClose, TypeOK
  <2> QED BY <2>1, <2>2, <2>3
<1> HIDE DEF w, p
<1>5. ASSUME NEW t \in Streams, t # s PROVE StreamInv(t)'
  <2>1. Apart(t)
    BY <1>2, <1>3, <1>4, <1>5 DEF Apart, Holds
  <2> QED BY <1>1, <2>1, ApartKeeps DEF Inv
<1>6. QuietInv(s) /\ OpenInv(s) /\ (\A a \in Ends : EndInv(a, s)) /\ wire[e] = w
  BY DEF Inv, StreamInv, w
<1>7. /\ app["agent"][s] # "idle" /\ app["gateway"][s] \notin {"idle", "opening", "failed"}
      /\ pipe[e][s] # "none" /\ (pipe[e][s] = "open" <=> s \in table[e])
      /\ ~Has(wire["agent"], "open", s) /\ pipe'[e][s] \in Shut
  <2>1. /\ app["agent"][s] # "idle" /\ app["gateway"][s] \notin {"idle", "opening", "failed"}
        /\ pipe[e][s] # "none" /\ (pipe[e][s] = "open" <=> s \in table[e])
        /\ ~Has(wire["agent"], "open", s)
    BY <1>2, <1>3, <1>6, FrameIsKnown
  <2> QED BY <1>1, <1>4, <2>1 DEF TypeOK, Shut
<1>8. /\ sent[p][s] \in Nat /\ Len(got[e][s]) \in Nat /\ Taken(e, s) = Len(got[e][s])
      /\ Taken(p, s)' = Taken(p, s)
  <2>1. sent[p][s] \in Nat /\ got[e][s] \in Seq(Nat)
    BY <1>1 DEF TypeOK
  <2>2. Len(got[e][s]) \in Nat
    BY <2>1
  <2>3. Taken(e, s) = Len(got[e][s]) + 0
    BY <1>2 DEF Taken, Holds
  <2>4. Taken(p, s)' = Taken(p, s)
    BY <1>4 DEF Taken, Holds
  <2> QED BY <2>1, <2>2, <2>3, <2>4
<1>9. Carries(Head(w), "close", s) /\ ~Carries(Head(w), "open", s)
  BY <1>2, <1>3 DEF Carries
<1>10. /\ Ordered(Tail(w), s, sent[p][s])
       /\ \A typ : Has(Tail(w), typ, s) => Has(w, typ, s)
       /\ Has(w, "close", s)
       /\ OpenFirst(w, s) => OpenFirst(Tail(w), s)
  <2>1. Ordered(w, s, sent[p][s])
    BY <1>1, <1>6 DEF EndInv, ChunkInv
  <2>2. Ordered(Tail(w), s, sent[p][s])
    BY <1>2, <1>8, <2>1, TailOrdered
  <2>3. (\A typ : Has(Tail(w), typ, s) => Has(w, typ, s)) /\ Has(w, "close", s)
    BY <1>2, <1>9, TailHas
  <2>4. OpenFirst(w, s) => OpenFirst(Tail(w), s)
    BY <1>2, TailOpen
  <2> QED BY <2>2, <2>3, <2>4
<1>11. s \in table[e] => Len(got[e][s]) = sent[p][s]
  <2> SUFFICES ASSUME s \in table[e] PROVE Len(got[e][s]) = sent[p][s]
    OBVIOUS
  <2>1. /\ Ordered(w, s, sent[p][s]) /\ Taken(e, s) <= sent[p][s]
        /\ Complete(w, s, Taken(e, s), sent[p][s])
    BY <1>1, <1>6, <1>7 DEF EndInv, ChunkInv, Receiving
  <2>2. sent[p][s] <= Taken(e, s)
    BY <1>2, <1>8, <1>9, <2>1, TailComplete
  <2> QED BY <1>8, <2>1, <2>2
<1>12. QuietInv(s)'
  BY <1>1, <1>4, <1>7 DEF QuietInv
<1>13. OpenInv(s)'
  <2>1. CASE e = "agent"
    BY <1>2, <1>4, <1>6, <1>7, <1>10, <2>1 DEF OpenInv
  <2>2. CASE e = "gateway"
    BY <1>1, <1>2, <1>4, <1>6, <1>7, <2>2 DEF OpenInv
  <2> QED BY <1>1, <2>1, <2>2
<1>14. ASSUME NEW a \in Ends PROVE EndInv(a, s)'
  <2>1. TableInv(a, s)'
    BY <1>4, <1>6, <1>7 DEF TableInv, EndInv, Shut
  <2>2. ChunkInv(a, s)'
    <3>1. CASE a = e
      BY <1>1, <1>2, <1>4, <1>7, <1>10, <3>1 DEF ChunkInv, Receiving, Shut
    <3>2. CASE a = p
      BY <1>1, <1>2, <1>4, <1>6, <1>8, <3>2 DEF ChunkInv, EndInv, Receiving
    <3> QED BY <1>1, <3>1, <3>2
  <2>3. HeldInv(a, s)'
    BY <1>2, <1>4, <1>6 DEF HeldInv, EndInv, Holds
  <2>4. CloseInv(a, s)'
    <3>1. CASE a = e
      BY <1>1, <1>2, <1>4, <1>6, <1>7, <1>10, <1>11, <3>1 DEF CloseInv, EndInv
    <3>2. CASE a = p
      BY <1>1, <1>2, <1>4, <1>6, <3>2 DEF CloseInv, EndInv
    <3> QED BY <1>1, <3>1, <3>2
  <2> QED BY <2>1, <2>2, <2>3, <2>4 DEF EndInv
<1> QED BY <1>5, <1>12, <1>13, <1>14 DEF Inv, StreamInv

-----------------------------------------------------------------------------
(* The theorems.                                                               *)

\* The invariant holds before the first stream is opened.
LEMMA InitInv == Init => Inv
<1> SUFFICES ASSUME Init PROVE Inv
  OBVIOUS
<1>1. "gateway" \in Ends /\ "agent" \in Ends /\ \A e \in Ends : Peer(e) \in Ends
  BY TheEnds DEF Ends
<1>2. TypeOK
  <2>1. budget \in [Ends \cup {"breaks"} -> Nat] /\ BufCap \in Nat \ {0}
    BY BoundsAssumption DEF Init, Ends
  <2>2. << >> \in Seq(Frames) /\ << >> \in Seq(Nat) /\ Len(<< >>) = 0
    OBVIOUS
  <2> QED BY <2>1, <2>2 DEF Init, TypeOK, PerStream
<1>3. ASSUME NEW s \in Streams PROVE StreamInv(s)
  <2>1. \A e \in Ends : /\ wire[e] = << >> /\ table[e] = {} /\ pipe[e][s] = "none"
                        /\ held[e] = << >> /\ app[e][s] = "idle" /\ sent[e][s] = 0
                        /\ got[e][s] = << >> /\ ended[e] = {}
    BY DEF Init, PerStream
  <2>2. /\ ~Mentions(<< >>, s) /\ \A typ : ~Has(<< >>, typ, s)
        /\ Ordered(<< >>, s, 0) /\ Complete(<< >>, s, 0, 0)
        /\ LateLast(<< >>, s) /\ OpenFirst(<< >>, s) /\ LedByOpen(<< >>, s)
    BY NoFrames, Silent
  <2>3. \A e \in Ends : ~Holds(e, s)
    BY <2>1 DEF Holds
  <2>4. \A e \in Ends : Taken(e, s) = 0
    <3> SUFFICES ASSUME NEW e \in Ends PROVE Taken(e, s) = 0
      OBVIOUS
    <3>1. Taken(e, s) = Len(<< >>) + 0
      BY <2>1, <2>3 DEF Taken
    <3> QED BY <3>1
  <2>5. QuietInv(s)
    BY <1>1, <2>1, <2>2, <2>3 DEF QuietInv
  <2>6. OpenInv(s)
    BY <1>1, <2>1, <2>2 DEF OpenInv, HungUp, Unclosed
  <2>7. ASSUME NEW e \in Ends PROVE EndInv(e, s)
    BY <1>1, <2>1, <2>2, <2>3, <2>4
       DEF EndInv, TableInv, ChunkInv, HeldInv, CloseInv, HungUp
  <2> QED BY <2>5, <2>6, <2>7 DEF StreamInv
<1> QED BY <1>2, <1>3 DEF Inv

\* The invariant is inductive: one step per action.
LEMMA StepInv == Inv /\ [Next]_vars => Inv'
<1> SUFFICES ASSUME Inv, [Next]_vars PROVE Inv'
  OBVIOUS
<1>1. TypeOK'
  BY TypeStep DEF Inv
<1>2. CASE UNCHANGED vars
  <2>1. \A t \in Streams : Apart(t)
    BY <1>2 DEF vars, linkVars, muxVars, userVars, Apart, Holds
  <2> QED BY <1>1, <2>1, ApartKeeps DEF Inv
<1>3. ASSUME NEW s \in Streams, OpenStream(s) \/ OpenSent(s) \/ OpenFails(s) \/ DialSSHD(s)
      PROVE  Inv'
  BY <1>1, <1>3, OpenStreamKeeps, OpenSentKeeps, OpenFailsKeeps, DialSSHDKeeps
<1>4. ASSUME NEW e \in Ends, NEW s \in Streams,
             Write(e, s) \/ Reader(e, s) \/ StreamClose(e, s) \/ CloseSent(e, s) \/ StreamRemove(e, s)
      PROVE  Inv'
  BY <1>1, <1>4, WriteKeeps, ReadKeeps, ReadEOFKeeps, StreamCloseKeeps, CloseSentKeeps,
     StreamRemoveKeeps DEF Reader
<1>5. ASSUME NEW e \in Ends, ReadLoop(e) PROVE Inv'
  BY <1>1, <1>5, ReadOpenKeeps, ReadDataKeeps, ReadCloseKeeps, DeliverFailsKeeps DEF ReadLoop
<1>6. ASSUME NEW e \in Ends, CloseConn(e) PROVE Inv'
  BY <1>1, <1>6, CloseConnKeeps
<1>7. "gateway" \in Ends
  BY DEF Ends
<1> QED BY <1>2, <1>3, <1>4, <1>5, <1>6, <1>7 DEF Next, ReadFails, Replaced

\* The frames on the wire, the pipes and the tables stay well formed, and the
\* buffers are never filled beyond their capacity (writeFrame waits).
THEOREM TypeCorrect == Spec => []TypeOK
<1>1. Inv => TypeOK
  BY DEF Inv
<1> QED BY <1>1, InitInv, StepInv, PTL DEF Spec

\* registry.go: an end that has forgotten a stream (removeStream, a Close frame
\* or AgentConn.Close) never leaves its reader waiting on the pipe.
THEOREM ForgottenStreamsEnd == Spec => []ForgottenIsEnded
<1>1. Inv => ForgottenIsEnded
  <2> SUFFICES ASSUME Inv, NEW e \in Ends, NEW s \in Streams,
                      s \notin table[e], app[e][s] \in {"opening"} \cup Unclosed
               PROVE  pipe[e][s] = "eof"
    BY DEF ForgottenIsEnded
  <2>1. TypeOK /\ TableInv(e, s)
    BY DEF Inv, StreamInv, EndInv
  <2> QED BY <2>1 DEF TypeOK, TableInv, Unclosed
<1> QED BY <1>1, InitInv, StepInv, PTL DEF Spec

\* The steps of TunnelStream as steps of ByteStream.
LEMMA StepImplements == Inv /\ [Next]_vars => [BS!Next]_BS!vars
<1> SUFFICES ASSUME Inv, [Next]_vars PROVE [BS!Next]_BS!vars
  OBVIOUS
<1> DEFINE hung == [e \in Ends |-> {s \in Streams : app[e][s] \in HungUp}]
           broken == closed # {}
<1>1. TypeOK /\ "gateway" \in Ends /\ "agent" \in Ends
  BY DEF Inv, Ends
<1>2. BS!Ends = Ends /\ \A e \in Ends : BS!Peer(e) = Peer(e) /\ Peer(e) \in Ends
  BY TheEnds DEF BS!Ends, BS!Peer, Ends, Peer
<1>3. ASSUME \A e \in Ends, s \in Streams : app'[e][s] \in HungUp <=> app[e][s] \in HungUp
      PROVE  hung' = hung
  BY <1>3
<1>4. ASSUME sent' = sent, got' = got, ended' = ended, closed' = closed,
             \A e \in Ends, s \in Streams : app'[e][s] \in HungUp <=> app[e][s] \in HungUp
      PROVE  UNCHANGED BS!vars
  BY <1>3, <1>4 DEF BS!vars
<1>5. ASSUME NEW s \in Streams, OpenStream(s) \/ OpenSent(s) \/ OpenFails(s) \/ DialSSHD(s)
      PROVE  UNCHANGED BS!vars
  <2>1. /\ sent' = sent /\ got' = got /\ ended' = ended /\ closed' = closed
        /\ \E e \in Ends, from \in {"idle", "opening"}, to \in {"opening", "open", "failed"} :
             App(e, s, {from}, to)
    BY <1>1, <1>5 DEF OpenStream, OpenSent, OpenFails, DialSSHD, linkVars
  <2>2. PICK e \in Ends, from \in {"idle", "opening"}, to \in {"opening", "open", "failed"} :
          app[e][s] = from /\ app' = [app EXCEPT ![e][s] = to]
    BY <2>1 DEF App
  <2>3. app[e][s] \notin HungUp /\ to \notin HungUp
    BY <2>2 DEF HungUp
  <2>4. \A a \in Ends, t \in Streams :
          IF a = e /\ t = s THEN app'[a][t] = to ELSE app'[a][t] = app[a][t]
    BY <1>1, <2>2 DEF TypeOK
  <2>5. \A a \in Ends, t \in Streams : app'[a][t] \in HungUp <=> app[a][t] \in HungUp
    BY <2>3, <2>4
  <2> QED BY <1>4, <2>1, <2>5
<1>6. ASSUME NEW e \in Ends, NEW s \in Streams, Write(e, s)
      PROVE  BS!Write(e, s) \/ UNCHANGED BS!vars
  <2>1. got' = got /\ ended' = ended /\ closed' = closed /\ app' = app
    BY <1>6 DEF Write
  <2>2. CASE app[e][s] \in Unclosed
    <3>1. s \notin hung[e]
      BY <2>2 DEF HungUp, Unclosed
    <3>2. sent' = [sent EXCEPT ![e][s] = sent[e][s] + 1]
      BY <1>6, <2>2 DEF Write
    <3> QED BY <2>1, <3>1, <3>2 DEF BS!Write
  <2>3. CASE app[e][s] \notin Unclosed
    BY <1>4, <1>6, <2>1, <2>3 DEF Write
  <2> QED BY <2>2, <2>3
<1>7. ASSUME NEW e \in Ends, NEW s \in Streams, Read(e, s)
      PROVE  BS!Read(e, s)
  <2>1. sent' = sent /\ ended' = ended /\ closed' = closed /\ app' = app
    BY <1>7 DEF Read, linkVars
  <2>2. /\ Holds(e, s) /\ pipe[e][s] = "open"
        /\ got' = [got EXCEPT ![e][s] = Append(got[e][s], held[e][1].n)]
    BY <1>7 DEF Read, Holds
  <2>3. TableInv(e, s) /\ HeldInv(e, s) /\ ChunkInv(e, s)
    BY DEF Inv, StreamInv, EndInv
  <2>4. held[e][1].n = Len(got[e][s]) + 1
    BY <2>2, <2>3 DEF HeldInv
  <2>5. s \notin ended[e]
    BY <2>2, <2>3 DEF TableInv, Shut
  <2>6. Len(got[e][s]) < sent[Peer(e)][s]
    <3>1. got[e][s] \in Seq(Nat) /\ sent[Peer(e)][s] \in Nat
      BY <1>1, <1>2 DEF TypeOK
    <3>2. Taken(e, s) = Len(got[e][s]) + 1 /\ Taken(e, s) <= sent[Peer(e)][s]
      BY <2>2, <2>3 DEF Taken, ChunkInv, Receiving
    <3>3. Len(got[e][s]) \in Nat
      BY <3>1
    <3> QED BY <3>1, <3>2, <3>3
  <2> QED BY <1>2, <2>1, <2>2, <2>4, <2>5, <2>6 DEF BS!Read
<1>8. ASSUME NEW e \in Ends, NEW s \in Streams, ReadEOF(e, s)
      PROVE  BS!ReadEOF(e, s)
  <2>1. /\ sent' = sent /\ got' = got /\ closed' = closed /\ app' = app
        /\ ended' = [ended EXCEPT ![e] = ended[e] \cup {s}] /\ pipe[e][s] = "eof"
    BY <1>8 DEF ReadEOF, linkVars
  <2>2. closed = {} => app[Peer(e)][s] \in HungUp /\ Len(got[e][s]) = sent[Peer(e)][s]
    BY <2>1 DEF Inv, StreamInv, EndInv, CloseInv
  <2>3. closed = {} => BS!Drained(e, s)
    BY <1>2, <2>2 DEF BS!Drained
  <2> QED BY <2>1, <2>3 DEF BS!ReadEOF
<1>9. ASSUME NEW e \in Ends, NEW s \in Streams, CloseSent(e, s)
      PROVE  BS!HangUp(e, s)
  <2>1. /\ sent' = sent /\ got' = got /\ ended' = ended /\ closed' = closed
        /\ app' = [app EXCEPT ![e][s] = "closing"]
    BY <1>9 DEF CloseSent, App
  <2>2. hung' = [hung EXCEPT ![e] = hung[e] \cup {s}]
    <3>1. \A a \in Ends, t \in Streams :
            app'[a][t] \in HungUp <=> app[a][t] \in HungUp \/ (a = e /\ t = s)
      BY <1>1, <2>1 DEF TypeOK, HungUp
    <3> QED BY <3>1
  <2> QED BY <2>1, <2>2 DEF BS!HangUp
<1>10. ASSUME NEW e \in Ends, NEW s \in Streams, StreamClose(e, s) \/ StreamRemove(e, s)
       PROVE  UNCHANGED BS!vars
  <2>1. /\ sent' = sent /\ got' = got /\ ended' = ended /\ closed' = closed
        /\ \/ app[e][s] \in InUse /\ app' = [app EXCEPT ![e][s] = "hanging"]
           \/ app[e][s] = "closing" /\ app' = [app EXCEPT ![e][s] = "closed"]
    BY <1>10 DEF StreamClose, StreamRemove, App, InUse, linkVars
  <2>2. \A a \in Ends, t \in Streams : app'[a][t] \in HungUp <=> app[a][t] \in HungUp
    <3>1. CASE app[e][s] \in InUse /\ app' = [app EXCEPT ![e][s] = "hanging"]
      BY <1>1, <3>1 DEF HungUp, InUse, TypeOK
    <3>2. CASE app[e][s] = "closing" /\ app' = [app EXCEPT ![e][s] = "closed"]
      BY <1>1, <3>2 DEF HungUp, TypeOK
    <3> QED BY <2>1, <3>1, <3>2
  <2> QED BY <1>4, <2>1, <2>2
<1>11. ASSUME NEW e \in Ends, ReadLoop(e)
       PROVE  UNCHANGED BS!vars
  <2>1. /\ sent' = sent /\ got' = got /\ ended' = ended /\ closed' = closed
        /\ app' = app \/ App(e, Head(wire[e]).id, {"idle"}, "opening")
    BY <1>11 DEF ReadLoop, ReadOpen, ReadData, ReadClose, DeliverFails, linkVars, userVars
  <2>2. \A a \in Ends, t \in Streams : app'[a][t] \in HungUp <=> app[a][t] \in HungUp
    <3>1. CASE app' = app
      BY <3>1
    <3>2. CASE App(e, Head(wire[e]).id, {"idle"}, "opening")
      <4>1. \A a \in Ends, t \in Streams :
              IF a = e /\ t = Head(wire[e]).id THEN app[a][t] = "idle" /\ app'[a][t] = "opening"
                                              ELSE app'[a][t] = app[a][t]
        BY <1>1, <3>2 DEF App, TypeOK
      <4> QED BY <4>1 DEF HungUp
    <3> QED BY <2>1, <3>1, <3>2
  <2> QED BY <1>4, <2>1, <2>2
<1>12. ASSUME NEW e \in Ends, CloseConn(e)
       PROVE  BS!Break
  <2>1. sent' = sent /\ got' = got /\ ended' = ended /\ app' = app /\ closed' # {}
    BY <1>12 DEF CloseConn
  <2>2. hung' = hung
    BY <2>1
  <2> QED BY <2>1, <2>2 DEF BS!Break
<1>13. CASE UNCHANGED vars
  BY <1>4, <1>13 DEF vars, linkVars, muxVars, userVars
<1> QED
  BY <1>1, <1>2, <1>5, <1>6, <1>7, <1>8, <1>9, <1>10, <1>11, <1>12, <1>13
     DEF Next, Reader, ReadFails, Replaced, BS!Next

\* internal/agent/registry.go: the streams multiplexed over one WebSocket are
\* the connections that ByteStream describes: chunks are read in the order in
\* which they were written, none missing and none twice, and a reader that sees
\* an end of file although it did not hang up and the connection lasts has read
\* everything that its peer wrote before hanging up.
THEOREM StreamsAreByteStreams == Spec => ImplementsByteStream
<1>1. Init => BS!Init
  <2> SUFFICES ASSUME Init PROVE BS!Init
    OBVIOUS
  <2>1. \A e \in Ends, s \in Streams : app[e][s] \notin HungUp
    BY DEF Init, PerStream, HungUp
  <2>2. [e \in Ends |-> {s \in Streams : app[e][s] \in HungUp}] = [e \in Ends |-> {}]
    BY <2>1
  <2> QED BY <2>2 DEF Init, PerStream, BS!Init, BS!Ends, Ends
<1> QED BY <1>1, InitInv, StepInv, StepImplements, PTL DEF Spec, ImplementsByteStream, BS!Spec

=============================================================================
