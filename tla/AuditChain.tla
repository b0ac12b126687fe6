------------------------------ MODULE AuditChain ------------------------------
(***************************************************************************)
(* The tamper-evident audit log (internal/auditlog): Append, called by     *)
(* every recorder, handler and agent callback of the gateway, and Verify.  *)
(* A row is its content (event type and data, two columns of free text),   *)
(* whom it is about (session, server, user), its prev_hash and its hash.   *)
(* The hash of a row is what it was computed from, the texts of the chain  *)
(* from its first row to this one: SHA-256 is taken to be free of          *)
(* collisions, and a prev_hash, which is hexadecimal, has no bar in it.    *)
(***************************************************************************)
EXTENDS Integers, Sequences, SequencesExt, FiniteSets

CONSTANTS Appenders,  \* goroutines that call Append
          Chars, Bar, \* the characters of a text, and "|" among them
          Contents,   \* what a row can say: event type and data
          Subjects,   \* whom a row can be about: session, server and user
          NoOne,      \* the mutex is free
          Legacy,     \* how many rows the log may have from before the chain
          MaxRows,    \* bound: Append is called while the log is shorter
          ReadsFail   \* may the SELECT of the latest hash fail?

ASSUME ContentsAssumption ==
  /\ Contents # {} /\ Subjects # {} /\ Bar \in Chars
  /\ Contents \subseteq [type : Seq(Chars), data : Seq(Chars)]
ASSUME NoOneAssumption == NoOne \notin Appenders
ASSUME BoundsAssumption == Legacy \in Nat /\ MaxRows \in Nat
ASSUME ReadsFailAssumption == ReadsFail \in BOOLEAN

VARIABLES
  rows,     \* audit_logs in id order
  mu,       \* auditlog.mu
  apc,      \* where each call of Append is
  event,    \* what it appends, and about whom
  prev,     \* the hash it read as that of the latest row
  misread,  \* history: a read of the latest hash has failed
  stored,   \* history: number of INSERTs that succeeded
  sunk      \* number of rows handed to Sink, each by its own goroutine

auditVars == <<rows, mu, apc, event, prev, misread, stored, sunk>>

\* The empty string, which a NULL hash or prev_hash reads as.
Empty == <<>>

\* What is hashed behind prev: the two columns with a bar between them, neither
\* of them escaped.  Two contents may have one text.
Text(c) == c.type \o <<Bar>> \o c.data
Texts == {Text(c) : c \in Contents}

\* Mutant: the content is left out of the hash.
chainHashLinkOnly(p, c) == Append(p, Text(CHOOSE x \in Contents : TRUE))

chainHash(p, c) == Append(p, Text(c))

Events == [content : Contents, about : Subjects]

NewRow(e, p, h) ==
  [content |-> e.content, about |-> e.about, prev |-> p, hash |-> h]

\* A row written before migration 005 added the hash columns.
LegacyRow(e) == NewRow(e, Empty, Empty)

ChainedRow(p, e) == NewRow(e, p, chainHash(p, e.content))

AuditInit ==
  /\ rows \in UNION {[1..n -> {LegacyRow(e) : e \in Events}] : n \in 0..Legacy}
  /\ mu = NoOne
  /\ apc = [a \in Appenders |-> "idle"]
  /\ event = [a \in Appenders |-> CHOOSE e \in Events : TRUE]
  /\ prev = [a \in Appenders |-> Empty]
  /\ misread = FALSE
  /\ stored = 0
  /\ sunk = 0

-----------------------------------------------------------------------------
\* Mutant: the mutex is not taken.
LockNothing(a) ==
  /\ apc[a] = "idle" /\ Len(rows) < MaxRows
  /\ apc' = [apc EXCEPT ![a] = "locked"]
  /\ \E e \in Events : event' = [event EXCEPT ![a] = e]
  /\ UNCHANGED <<rows, mu, prev, stored, sunk, misread>>

\* Append is called and mu.Lock returns.
Lock(a) ==
  /\ apc[a] = "idle" /\ mu = NoOne /\ Len(rows) < MaxRows
  /\ mu' = a
  /\ apc' = [apc EXCEPT ![a] = "locked"]
  /\ \E e \in Events : event' = [event EXCEPT ![a] = e]
  /\ UNCHANGED <<rows, prev, stored, sunk, misread>>

\* SELECT hash ... LIMIT 1, its error discarded: no row, a NULL hash and a
\* failed query all leave prev empty.
ReadLatest(a) ==
  /\ apc[a] = "locked"
  /\ apc' = [apc EXCEPT ![a] = "read"]
  /\ \E fails \in {FALSE, ReadsFail} :
       /\ prev' = [prev EXCEPT ![a] = IF fails \/ rows = <<>> THEN Empty
                                      ELSE Last(rows).hash]
       /\ misread' = (misread \/ fails)
  /\ UNCHANGED <<rows, mu, event, stored, sunk>>

\* INSERT; on success a goroutine hands the row to Sink; the deferred unlock.
Insert(a) ==
  /\ apc[a] = "read"
  /\ apc' = [apc EXCEPT ![a] = "idle"]
  /\ rows' = Append(rows, ChainedRow(prev[a], event[a]))
  /\ mu' = NoOne
  /\ stored' = stored + 1
  /\ UNCHANGED <<event, prev, sunk, misread>>

\* The INSERT fails: the caller gets the error, and the row is lost.
InsertFails(a) ==
  /\ apc[a] = "read"
  /\ apc' = [apc EXCEPT ![a] = "idle"]
  /\ mu' = NoOne
  /\ UNCHANGED <<rows, event, prev, stored, sunk, misread>>

\* One of the goroutines started by Append runs Sink.
Sink ==
  /\ sunk < stored
  /\ sunk' = sunk + 1
  /\ UNCHANGED <<rows, mu, apc, event, prev, stored, misread>>

AuditNext ==
  \/ \E a \in Appenders : Lock(a) \/ ReadLatest(a) \/ Insert(a) \/ InsertFails(a)
  \/ Sink

AuditSpec == AuditInit /\ [][AuditNext]_auditVars

-----------------------------------------------------------------------------
Hashed(log, i) == log[i].hash # Empty

\* h is Verify's prevHash when it comes to row i: the hash of the nearest
\* hashed row before it.
PrevHash(log, i, h) ==
  \/ /\ h = Empty
     /\ \A k \in 1 .. i - 1 : ~Hashed(log, k)
  \/ \E j \in 1 .. i - 1 :
       /\ Hashed(log, j) /\ h = log[j].hash
       /\ \A k \in j + 1 .. i - 1 : ~Hashed(log, k)

\* Verify: unhashed rows are skipped; every other row links to the hashed row
\* before it and has the hash of its own content.
Verify(log) ==
  \A i \in 1 .. Len(log) : Hashed(log, i) =>
    /\ PrevHash(log, i, log[i].prev)
    /\ log[i].hash = chainHash(log[i].prev, log[i].content)

Rows ==
  [content : Contents, about : Subjects, prev : Seq(Texts), hash : Seq(Texts)]

\* Types; Sink is handed no more rows than the INSERTs have stored.
AuditTypeOK ==
  /\ rows \in Seq(Rows)
  /\ mu \in Appenders \cup {NoOne}
  /\ apc \in [Appenders -> {"idle", "locked", "read"}]
  /\ event \in [Appenders -> Events]
  /\ prev \in [Appenders -> Seq(Texts)]
  /\ misread \in BOOLEAN
  /\ stored \in Nat /\ sunk \in Nat
  /\ sunk <= stored /\ stored <= Len(rows)

\* auditlog.go: mu serialises appends "so the chain links to the true latest
\* row": a log that nobody touched verifies, however many goroutines append and
\* whichever of their INSERTs fail.  Only a failed SELECT, whose error Append
\* discards, can break it.
OwnLogVerifies == misread \/ Verify(rows)

Edited(log, i, c) == [log EXCEPT ![i].content = c]
Swapped(log, i, j) == [log EXCEPT ![i] = log[j], ![j] = log[i]]

\* What the chain of a log that verifies protects: an edit that changes the
\* hashed text of a row, the exchange of two hashed rows, and the deletion of any
\* hashed row but the newest are all noticed by Verify.  Not noticed are an edit
\* that moves a bar from one of the columns event_type and data to the other, a
\* change of whom a row is about, and the deletion of the newest rows.
TamperingDetected ==
  Verify(rows) =>
    /\ \A i \in DOMAIN rows, c \in Contents :
         Hashed(rows, i) /\ Text(c) # Text(rows[i].content) => ~Verify(Edited(rows, i, c))
    /\ \A i, j \in DOMAIN rows :
         i < j /\ Hashed(rows, i) /\ Hashed(rows, j) => ~Verify(Swapped(rows, i, j))
    /\ \A i \in 1 .. Len(rows) - 1 :
         Hashed(rows, i) => ~Verify(RemoveAt(rows, i))

-----------------------------------------------------------------------------
(* A statement of the repository that the code does not keep. *)

\* The package comment of auditlog.go: "Any edit/deletion/reordering breaks the
\* chain and is detectable via Verify."
AnyTamperingDetected ==
  Verify(rows) =>
    \A i \in DOMAIN rows : Hashed(rows, i) =>
      /\ \A c \in Contents \ {rows[i].content} : ~Verify(Edited(rows, i, c))
      /\ ~Verify(RemoveAt(rows, i))
      /\ \A j \in DOMAIN rows \ {i} : Hashed(rows, j) => ~Verify(Swapped(rows, i, j))
=============================================================================
