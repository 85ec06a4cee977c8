---------------------------- MODULE MCMcpInvoker ----------------------------
(* Small instances of McpInvoker for TLC.                                  *)
EXTENDS McpInvoker, TLC

\* Tasks and sessions are interchangeable.
Symmetry == Permutations(Tasks) \union Permutations(Sessions)
=============================================================================
