------------------------------- MODULE MCRing -------------------------------
(* Model-checking instance of Ring.                                        *)
EXTENDS Ring

=============================================================================
