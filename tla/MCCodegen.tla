----------------------------- MODULE MCCodegen -----------------------------
(* Small instances of Codegen for TLC.                                     *)
EXTENDS Codegen

\* A case goes and comes back, and the one after it moves.
TwoPlans == {<<"a", "b">>, <<"b">>}
=============================================================================
