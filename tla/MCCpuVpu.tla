------------------------------ MODULE MCCpuVpu ------------------------------
(***************************************************************************)
(* An instance of CpuVpu for TLC: f and s are kernels of the modules m1    *)
(* and m2, s with a scalar parameter.  c1 and c2 are calls of f with the   *)
(* same arguments, c3 one with others, c4 and c5 are calls of s.           *)
(***************************************************************************)
EXTENDS CpuVpu

CONSTANTS c1, c2, c3, c4, c5, f, s, m1, m2, x, y

MCFunc == [c \in Calls |-> IF c \in {c4, c5} THEN s ELSE f]
MCKey == [c \in Calls |-> IF c = c3 THEN y ELSE x]
MCModule == [g \in Funcs |-> IF g = f THEN m1 ELSE m2]
=============================================================================
