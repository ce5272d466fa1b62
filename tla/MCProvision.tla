----------------------------- MODULE MCProvision -----------------------------
(* TLC instances of Provision. *)
EXTENDS Provision
=============================================================================
