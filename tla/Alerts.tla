------------------------------- MODULE Alerts -------------------------------
(***************************************************************************)
(* The failed-login detector (bruteForce, internal/api/alerts.go) and the  *)
(* webhook notifier (internal/notify).  Both live in the gateway's memory  *)
(* and a restart empties them.  Module Accounts calls these operators from *)
(* the login handlers.                                                     *)
(***************************************************************************)
EXTENDS Integers, Sequences, FiniteSets

CONSTANTS Names,     \* usernames
          Window,    \* bruteForce.window (5 minutes)
          Threshold, \* bruteForce.threshold (5)
          QueueCap,  \* capacity of Notifier.ch (512)
          Bounds     \* the instances checked: records of bounds, see bound

ASSUME AlertsAssumption ==
  /\ {Window, QueueCap} \subseteq Nat
  /\ Threshold \in Nat \ {0}
  /\ Bounds \subseteq [{"time", "fails", "users", "secrets", "states", "crashes"} -> Nat]

VARIABLES bound,   \* the bounds of this behaviour (never changes): the last
                   \* instant, failed logins of a user between two boots, rows
                   \* of the table, TOTP secrets, OIDC states and restarts
          now,     \* the clock
          fails,   \* bruteForce.fails: each slice as the set of its elements, a
                   \* failure's number since boot and its timestamp
          failLog, \* history since boot: what record() was told and answered
          queue,   \* Notifier.ch
          posting  \* the event the worker is posting, or "none"

alertVars == <<bound, now, fails, failLog, queue, posting>>

Events == {"none", "login_failed", "bruteforce", "sso_login"}
Failures == [n : Nat \ {0}, ts : 0..bound.time]
Entries == [ts : 0..bound.time, alert : BOOLEAN]

AlertsTypeOK ==
  /\ bound \in Bounds
  /\ now \in 0..bound.time
  /\ fails \in [Names -> SUBSET Failures]
  /\ failLog \in [Names -> Seq(Entries)]
  /\ queue \in Seq(Events \ {"none"}) /\ Len(queue) <= QueueCap
  /\ posting \in Events

AlertsEmpty ==
  /\ fails = [u \in Names |-> {}]
  /\ failLog = [u \in Names |-> <<>>]
  /\ queue = <<>>
  /\ posting = "none"

AlertsInit == bound \in Bounds /\ now = 0 /\ AlertsEmpty

\* What Send makes of a queue: the event is dropped when the queue is full.
Send(q, e) == IF Len(q) < QueueCap THEN Append(q, e) ELSE q

Failure(u, t) == [n |-> Len(failLog[u]) + 1, ts |-> t]

\* Mutant: the timestamps older than the window are never dropped.
KeptForever(u, t) == fails[u] \cup {Failure(u, t)}

\* The slice record() builds: what is left in the window, and the new failure.
Kept(u, t) == {f \in fails[u] : f.ts >= t - Window} \cup {Failure(u, t)}

\* record(u, t), and the bruteforce event when it answers true.
Record(u, t) ==
  LET alert == Cardinality(Kept(u, t)) = Threshold
  IN /\ fails' = [fails EXCEPT ![u] = Kept(u, t)]
     /\ failLog' = [failLog EXCEPT ![u] = Append(@, [ts |-> t, alert |-> alert])]
     /\ queue' = IF alert THEN Send(queue, "bruteforce") ELSE queue

Tick == now < bound.time /\ now' = now + 1 /\ UNCHANGED <<bound, fails, failLog, queue, posting>>

\* The worker receives an event; its POST then succeeds, fails or times out.
WorkerTake ==
  /\ posting = "none" /\ queue # <<>>
  /\ posting' = Head(queue) /\ queue' = Tail(queue)
  /\ UNCHANGED <<bound, now, fails, failLog>>

WorkerPosted ==
  /\ posting # "none" /\ posting' = "none"
  /\ UNCHANGED <<bound, now, fails, failLog, queue>>

-----------------------------------------------------------------------------
\* The failures among the first i of a log that no record up to the i-th, nor
\* one at time t, puts outside its window.  Written from the history alone.
InWindow(log, i, t) ==
  {j \in 1..i : /\ log[j].ts >= t - Window
                /\ \A k \in j..i : log[j].ts >= log[k].ts - Window}

Breach(log, i) == Cardinality(InWindow(log, i, log[i].ts)) >= Threshold

\* Failure i begins a breach: it finds fewer than Threshold failures in its
\* window and is the one that makes them so many.
Crosses(log, i) ==
  Breach(log, i) /\ Cardinality(InWindow(log, i - 1, log[i].ts)) < Threshold

AlertsAtCrossings(log) ==
  \A i \in DOMAIN log :
    /\ log[i].alert <=> Crosses(log, i)
    /\ Breach(log, i) =>
         \E k \in 1..i : log[k].alert /\ \A m \in k + 1 .. i : Breach(log, m) /\ ~log[m].alert

\* record() answers true for exactly the failures at which the count of one user
\* in the window goes from below Threshold to Threshold, and a failure that finds
\* the count there already belongs to a breach that has had its one alert: for
\* the slice that the calls prune and extend, with clock readings that reach
\* record() out of order and failures at the edge of the window.  This is the
\* only sense in which there is "one alert per breach" (alerts.go): failures
\* that come just as fast as old ones leave the window alert every time, since
\* each of them begins a breach.
AlertAtEachCrossing == \A u \in Names : AlertsAtCrossings(failLog[u])
=============================================================================
