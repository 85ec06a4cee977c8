---------------------------- MODULE MCServerRuns ----------------------------
(* Small instances of ServerRuns for TLC.                                  *)
EXTENDS ServerRuns

CONSTANTS c1, c2, c3

\* One step of each of two cases; the third is planned but has no steps.
MCCases == {c1, c2, c3}
MCShortSelection == <<c1, c2>>
MCPlanned == {c1, c2, c3}
=============================================================================
