----------------------------- MODULE MCSession -----------------------------
(* Bounds for model checking SessionProtocol; the values are in the cfgs.  *)
EXTENDS SessionProtocol
=============================================================================
