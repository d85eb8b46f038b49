----------------------------- MODULE MCHolders -----------------------------
(* Instances of Holders for TLC.                                              *)
EXTENDS Holders, TLC

MCHolders == Guards \cup Uniques \cup Tasks \cup Copyables
=============================================================================
