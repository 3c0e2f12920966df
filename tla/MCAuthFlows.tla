----------------------------- MODULE MCAuthFlows -----------------------------
(* An instance of AuthFlows for model checking. *)
EXTENDS AuthFlows
=============================================================================
