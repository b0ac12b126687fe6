------------------------------ MODULE ScanStore ------------------------------
(***************************************************************************)
(* What the gateway does with a vulnerability scan: the goroutine that     *)
(* OnScan starts for each one (internal/agent/tunnel.go), the severities   *)
(* cve.Enrich adds through its process-wide cache, and the server's        *)
(* vuln_scan columns.  Scans are numbered in the order the host made them. *)
(***************************************************************************)
EXTENDS Integers, Sequences, FiniteSets, FiniteSetsExt

CONSTANTS Cves,     \* advisory identifiers
          Score,    \* ten times the best CVSS score OSV has for each (0: none)
          MaxScans, \* bound: scans of the host
          Sem       \* concurrent fetches of one Enrich (12)

ASSUME ScanAssumption ==
  /\ Score \in [Cves -> 0..100] /\ MaxScans \in Nat /\ Sem \in Nat \ {0}

VARIABLES report,   \* scan n as the agent sent it: a sequence of findings
          job,      \* the goroutine of scan n
          cache,    \* cve.cache
          vulnScan  \* servers.vuln_scan, vuln_critical: the stored scan

scanVars == <<report, job, cache, vulnScan>>

Scans == 1..MaxScans
Known == {"critical", "high", "medium", "low"}
Severities == Known \cup {"", "unknown"}
Findings == Seq([id : Cves, sev : Severities])

bucket(score) ==
  CASE score >= 90 -> "critical" [] score >= 70 -> "high"
    [] score >= 40 -> "medium"   [] score > 0 -> "low" [] OTHER -> ""

\* A goroutine: where it is, the positions in the report of the ids it has to
\* fetch (toFetch), their results so far, and what Enrich returns.
NoJob == [pc |-> "none", todo |-> {}, got |-> <<>>, out |-> [c \in Cves |-> ""]]

ScanInit ==
  /\ report = [n \in Scans |-> <<>>]
  /\ job = [n \in Scans |-> NoJob]
  /\ cache = [c \in Cves |-> "unset"]
  /\ vulnScan = [n |-> 0, findings |-> <<>>, crit |-> 0]

Id(n, i) == report[n][i].id

\* OnScan: the goroutine starts; ReadLoop goes on.
OnScan(n) == job' = [job EXCEPT ![n].pc = "start"]

\* Enrich, first critical section: split the ids into cached and to fetch.
EnrichSplit(n) ==
  LET todo == {i \in DOMAIN report[n] : cache[Id(n, i)] = "unset"}
  IN /\ job[n].pc = "start"
     /\ job' = [job EXCEPT ![n] =
          [pc |-> IF todo = {} THEN "store" ELSE "fetch", todo |-> todo, got |-> <<>>,
           out |-> [c \in Cves |-> IF cache[c] = "unset" THEN "" ELSE cache[c]]]]
     /\ UNCHANGED <<report, cache, vulnScan>>

Fetched(n) == DOMAIN job[n].got
Extend(f, i, v) == [j \in DOMAIN f \cup {i} |-> IF j = i THEN v ELSE f[j]]
Fetching(n, i) ==
  /\ job[n].pc = "fetch" /\ i \in job[n].todo \ Fetched(n)
  /\ Cardinality({j \in job[n].todo : j < i}) < Cardinality(Fetched(n)) + Sem

\* Mutant: the goroutines share the loop's variable and look up the last id.
FetchSharedId(n, i, v) ==
  /\ Fetching(n, i)
  /\ job' = [job EXCEPT ![n].got = Extend(@, i, bucket(Score[Id(n, Max(job[n].todo))]))]
  /\ UNCHANGED <<report, cache, vulnScan>>

\* results[i] = fetchSeverity(id): OSV's severity, or "" when the request, the
\* status or the body is bad.  At most Sem of them are running.
Fetch(n, i, v) ==
  /\ Fetching(n, i)
  /\ job' = [job EXCEPT ![n].got = Extend(@, i, v)]
  /\ UNCHANGED <<report, cache, vulnScan>>

\* Enrich, second critical section: all results into the cache and the answer.
\* An id listed twice takes the later result.
EnrichMerge(n) ==
  LET of(c) == {i \in job[n].todo : Id(n, i) = c}
      merged(old) == [c \in Cves |-> IF of(c) # {} THEN job[n].got[Max(of(c))] ELSE old[c]]
  IN /\ job[n].pc = "fetch" /\ Fetched(n) = job[n].todo
     /\ cache' = merged(cache)
     /\ job' = [job EXCEPT ![n].pc = "store", ![n].out = merged(@)]
     /\ UNCHANGED <<report, vulnScan>>

\* The finding as it is stored: the agent's severity when Enrich knows none.
Enriched(n, i) ==
  [id |-> Id(n, i),
   sev |-> IF job[n].out[Id(n, i)] # "" THEN job[n].out[Id(n, i)] ELSE report[n][i].sev]

\* The UPDATE of the server, whichever scan it holds; its error is discarded.
ScanStored(n) ==
  LET findings == [i \in DOMAIN report[n] |-> Enriched(n, i)]
  IN /\ job[n].pc = "store" /\ job' = [job EXCEPT ![n].pc = "audit"]
     /\ vulnScan' \in {vulnScan,
          [n |-> n, findings |-> findings,
           crit |-> Cardinality({i \in DOMAIN findings :
                                   findings[i].sev \in {"critical", "high"}})]}
     /\ UNCHANGED <<report, cache>>

\* The audit entry.
ScanAudited(n) ==
  /\ job[n].pc = "audit" /\ job' = [job EXCEPT ![n].pc = "done"]
  /\ UNCHANGED <<report, cache, vulnScan>>

ScanStep(n) ==
  \/ EnrichSplit(n) \/ EnrichMerge(n) \/ ScanStored(n) \/ ScanAudited(n)
  \/ \E i \in job[n].todo : \E v \in {bucket(Score[Id(n, i)]), ""} : Fetch(n, i, v)

-----------------------------------------------------------------------------
ScanTypeOK ==
  /\ report \in [Scans -> Findings]
  /\ \A n \in Scans :
       /\ job[n].pc \in {"none", "start", "fetch", "store", "audit", "done"}
       /\ Fetched(n) \subseteq job[n].todo /\ job[n].todo \subseteq DOMAIN report[n]
       /\ \A i \in Fetched(n) : job[n].got[i] \in Severities
       /\ job[n].out \in [Cves -> Severities]
  /\ cache \in [Cves -> Severities \cup {"unset"}]
  /\ vulnScan \in [n : 0..MaxScans, findings : Findings, crit : Nat]

\* Whatever scans are enriched at the same time, in whatever order their
\* fetches finish, the severity cached for an advisory is its own or unknown,
\* and a stored finding carries its own severity or what the agent said of it
\* (cve.Enrich's results are matched to ids by index).
SeverityIsOwn ==
  /\ \A c \in Cves : cache[c] \in {"unset", "", bucket(Score[c])}
  /\ vulnScan.n # 0 =>
       /\ Len(vulnScan.findings) = Len(report[vulnScan.n])
       /\ \A i \in DOMAIN vulnScan.findings :
            /\ vulnScan.findings[i].id = report[vulnScan.n][i].id
            /\ vulnScan.findings[i].sev \in {bucket(Score[report[vulnScan.n][i].id]),
                                             report[vulnScan.n][i].sev}
=============================================================================
