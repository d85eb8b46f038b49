---------------------------- MODULE MCThreadPool ----------------------------
(* Instances of ThreadPool for TLC: k1 submits k2 and waits for it, k3 throws,*)
(* k4 is plain.                                                               *)
EXTENDS ThreadPool, TLC

CONSTANTS k1, k2, k3, k4

MCChild    == k1 :> k2 @@ [k \in Tasks \ {k1} |-> NoTask]
=============================================================================
