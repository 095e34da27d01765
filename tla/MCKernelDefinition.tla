------------------------- MODULE MCKernelDefinition -------------------------
(***************************************************************************)
(* Instances of KernelDefinition for TLC.                                  *)
(***************************************************************************)
EXTENDS KernelDefinition

CONSTANTS k1, k2, k3, k4, t1, t2

\* One thread defines three kernels, a second one disturbs it with another.
MCStatements == [k \in Kernels |-> IF k = k1 THEN 2 ELSE 1]
MCThread == [k \in Kernels |-> IF k = k4 THEN t2 ELSE t1]
=============================================================================
