------------------------------ MODULE MCNumerics ------------------------------
(* Instances of Numerics for TLC.                                             *)
EXTENDS Numerics, TLC

MCScalar == [signed |-> TRUE, bits |-> 2 * Width]
MCSymmetry == Permutations(Objects)
=============================================================================
