------------------------------- MODULE Holders -------------------------------
(* The three kinds of program that live on any_detail::Impl: one that copies   *)
(* and moves Function objects, one with ScopeExit guards, one with tasks.  They*)
(* share nothing but the code of Any, so a behaviour is that of one of them.   *)
EXTENDS ScopeExit, Task

VARIABLE program

vars == <<anyVars, guardVars, taskVars, program>>

Init == /\ AnyInit /\ GuardInit /\ TaskInit
        /\ program \in {"functions", "guards", "tasks"}

Next == /\ ending = "no"
        /\ UNCHANGED program
        /\ \/ /\ program = "functions" /\ CopyableStep
              /\ UNCHANGED guardVars /\ UNCHANGED taskVars
           \/ program = "guards" /\ GuardStep /\ UNCHANGED taskVars
           \/ program = "tasks"  /\ TaskStep  /\ UNCHANGED guardVars

Spec == Init /\ [][Next]_vars

\* Every variable has its type.
TypeOK == AnyTypeOK /\ GuardTypeOK /\ TaskTypeOK
=============================================================================
