----------------------------- MODULE MCOAuthPopup -----------------------------
(* Instances of OAuthPopup for model checking. *)
EXTENDS OAuthPopup, TLC

FlowSymmetry == Permutations(Flows)
=============================================================================
