----------------------------- MODULE MCAgentLink -----------------------------
(* Two advisories, one without a CVSS score; launches, scans, and a mix. *)
EXTENDS AgentLink

B(e, m, s) == [exec |-> e, metric |-> m, scan |-> s]
MCBounds == {B(2, 0, 0), B(0, 0, 2), B(1, 1, 0)}
MCCap == [exec |-> 1, metric |-> 1, scan |-> 1]
MCScore == [c \in Cves |-> IF c = "CVE-1" THEN 98 ELSE 0]
MCListings == {<<[id |-> "CVE-2", word |-> "important"], [id |-> "CVE-1", word |-> "low"]>>}
=============================================================================
