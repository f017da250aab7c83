---------------------------- MODULE MCPamMonitord ----------------------------
(***************************************************************************)
(* Small instances of PamMonitord for TLC.                                 *)
(***************************************************************************)
EXTENDS PamMonitord, TLC

CONSTANTS s1, s2, u1, x1, l1, l2, t1

\* Transactions, and logind ids, are interchangeable: all log in one user.
MCPamSymmetry == Permutations({s1, s2}) \cup Permutations({l1, l2})

OneUser == [p \in SessionId |-> u1]

=============================================================================
