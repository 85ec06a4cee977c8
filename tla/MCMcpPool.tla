----------------------------- MODULE MCMcpPool -----------------------------
(* Small instances of McpPool for TLC.                                     *)
EXTENDS McpPool, TLC

\* Tasks and sessions are interchangeable.
Symmetry == Permutations(Tasks) \union Permutations(Sessions)
=============================================================================
