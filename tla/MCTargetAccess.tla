--------------------------- MODULE MCTargetAccess ---------------------------
EXTENDS TargetAccess, TLC
\* Two calls that race, across a restart; or an update that overtakes a call.
MCBounds == {[boots |-> 2, updates |-> 0, calls |-> 2],
             [boots |-> 2, updates |-> 1, calls |-> 1]}
Symmetry == Permutations(Calls) \cup Permutations(Hosts)
              \cup Permutations(HostKeys) \cup Permutations(Secrets)
=============================================================================
