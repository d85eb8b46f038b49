-------------------------------- MODULE MCLocks --------------------------------
(* Instances of Locks for TLC: threads that keep handles log at one level.       *)
EXTENDS Locks

MCLogs == [op : {"log"}, tag : Tags, level : {1}]
=============================================================================
