------------------------------ MODULE MCOutput -------------------------------
(* Constants for checking module Output: stdout delivers two chunks and       *)
(* stderr one, or each stream one.                                            *)
EXTENDS Output

CONSTANTS stdout, stderr

MCSupply == [p \in Pumps |-> IF p = stdout THEN 2 ELSE 1]
MCSupplyOne == [p \in Pumps |-> 1]
=============================================================================
