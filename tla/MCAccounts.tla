----------------------------- MODULE MCAccounts -----------------------------
(* One instance per group of counters, and some with a little of two groups. *)
EXTENDS Accounts, TLC

B(time, fail, users, secrets, states, crash) ==
  [time |-> time, fails |-> fail, users |-> users, secrets |-> secrets,
   states |-> states, crashes |-> crash]
MCBounds == {B(3, 4, 1, 0, 0, 0), B(1, 2, 1, 0, 0, 1), B(0, 0, 1, 3, 0, 1),
             B(0, 0, 2, 0, 2, 0), B(0, 0, 2, 0, 1, 1),
             B(0, 0, 1, 1, 1, 0), B(0, 0, 2, 2, 0, 0)}
Symmetry == Permutations(Reqs)
=============================================================================
