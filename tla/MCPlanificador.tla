-------------------------- MODULE MCPlanificador --------------------------
(* Instances of PlanificadorErlang for TLC. *)
EXTENDS PlanificadorErlang

R(c, m, g) == [cpu |-> c, mem |-> m, gpu |-> g]

\* Halves: 1 cpu, 1 of memory (less than a GB) and 1 gpu, which make one piece;
\* 2 cpus, in one piece or two.
NingunoOTodos == {{}, Nodos}
Todos == {Nodos}
Dos == <<R(3, 3, 2), R(5, 0, 0)>>
=============================================================================
