------------------------------ MODULE MCDirectives ------------------------------
(* Instances of Directives for TLC: one thread's decision has two actions, the   *)
(* others have one.                                                              *)
EXTENDS Directives

CONSTANT d1

MCLength == [d \in Threads |-> IF d = d1 THEN 2 ELSE 1]
=================================================================================
