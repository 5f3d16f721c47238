--------------------------- MODULE MCExprRuntime ---------------------------
(* Instances of ExprRuntime for TLC. *)
EXTENDS ExprRuntime, TLC

MCAddresses == 1 .. 24
=============================================================================
