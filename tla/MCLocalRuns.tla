---------------------------- MODULE MCLocalRuns -----------------------------
(* A small instance of LocalRuns for TLC: one step of each of two cases.   *)
EXTENDS LocalRuns

CONSTANTS c1, c2

MCCases == {c1, c2}
MCShortSelection == <<c1, c2>>
=============================================================================
