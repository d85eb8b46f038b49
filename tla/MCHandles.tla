------------------------------ MODULE MCHandles ------------------------------
(* A program with a resource manager, which one thread uses, or one whose      *)
(* threads share global handles: the two have no state and no call in common,  *)
(* so a behaviour is that of one of them.                                      *)
EXTENDS ResourceManager, GlobalHandle

VARIABLE program

handlesVars == <<vars, globalVars, program>>

HandlesInit == /\ Init /\ GlobalInit
               /\ program \in {"manager", "global"}

HandlesNext == /\ UNCHANGED program
               /\ \/ program = "manager" /\ Next /\ UNCHANGED globalVars
                  \/ program = "global" /\ GlobalNext /\ UNCHANGED vars

HandlesSpec == HandlesInit /\ [][HandlesNext]_handlesVars
=============================================================================
