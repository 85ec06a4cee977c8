--------------------------- MODULE MCStepExecution ---------------------------
(* Finite instances of the execution of one step.                            *)
EXTENDS StepExecution

AllOps == {"click", "type", "select", "navigate", "check", "solve", "single",
           "other", "fakepath"}
=============================================================================
