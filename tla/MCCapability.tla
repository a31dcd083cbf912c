---------------------------- MODULE MCCapability ----------------------------
(* Model-checking instance of Capability.                                  *)
EXTENDS Capability

=============================================================================
