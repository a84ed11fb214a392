----------------------------- MODULE MCRbTarget -----------------------------
(* RbTarget for TLC.                                                       *)
EXTENDS RbTarget, TLC

=============================================================================
