-------------------------- MODULE MCRecursosAgente --------------------------
(* Instances of RecursosAgente for TLC. *)
EXTENDS RecursosAgente

CONSTANTS h1, h2, c1, c2, c3, c4, a, b, d, j1, j2, j3

P(j, n, r, k) == [jobId |-> j, nodo |-> n, rec |-> r, cant |-> k]

Cap2 == ("cpu" :> 2 @@ "mem" :> 1 @@ "gpu" :> 0)

\* c3 asks for more than the machine has; nodes a and b compete for the cpus.
PedidosA == c1 :> P(j1, a, "cpu", 2) @@ c2 :> P(j2, b, "cpu", 1) @@ c3 :> P(j1, a, "mem", 2)

\* One connection per node, each its own job; c2 and c3 fit together in c1's units.
PedidosP == c1 :> P(j1, a, "cpu", 2) @@ c2 :> P(j2, b, "cpu", 1) @@ c3 :> P(j3, d, "cpu", 1)

\* Node a has a connection for each of two jobs; node b uses one of those ids,
\* as planners that count from the same number do; node d shares nothing.
PedidosQ == c1 :> P(j1, a, "cpu", 1) @@ c2 :> P(j1, b, "cpu", 1)
            @@ c3 :> P(j2, a, "mem", 1) @@ c4 :> P(j3, d, "cpu", 1)

\* Two of the connections come from the same node.
PedidosI == c1 :> P(j1, a, "cpu", 2) @@ c2 :> P(j2, b, "cpu", 1) @@ c3 :> P(j3, a, "cpu", 1)

\* Node a asks for two jobs, the second waits behind node b.
PedidosN == c1 :> P(j1, a, "cpu", 1) @@ c2 :> P(j2, b, "mem", 1) @@ c3 :> P(j3, a, "mem", 1)

\* c1 exceeds the machine, c2 does not.
PedidosC == c1 :> P(j1, a, "mem", 2) @@ c2 :> P(j2, b, "mem", 1)
=============================================================================
