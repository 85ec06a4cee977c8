----------------------------- MODULE MCCaseSteps -----------------------------
(* Finite instances of the writers of one case's steps.                      *)
EXTENDS CaseSteps
=============================================================================
