----------------------------- MODULE MCCircular -----------------------------
(* Instances of Circular for TLC.                                             *)
EXTENDS Circular
=============================================================================
