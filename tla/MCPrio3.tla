------------------------------ MODULE MCPrio3 ------------------------------
(* Two reports and two aggregators, the number that                         *)
(* PrepInit should refuse, and two mixed-up inputs.                         *)
EXTENDS Prio3, TLC

Perms == Permutations(Report)
=============================================================================
