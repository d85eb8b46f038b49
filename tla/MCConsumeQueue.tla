--------------------------- MODULE MCConsumeQueue ---------------------------
(* Instances of ConsumeQueue for TLC.  The number of calls is not bounded:    *)
(* MaxSize bounds the queue and the state space is finite.                    *)
EXTENDS ConsumeQueue
=============================================================================
