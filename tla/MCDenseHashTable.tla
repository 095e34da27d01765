-------------------------- MODULE MCDenseHashTable --------------------------
(* Keys that share a home slot in tables of 4 or 5 buckets or are          *)
(* neighbours, so that probes, displacement chains and gaps reach the      *)
(* limit of four lookups, and that larger tables separate; one key has two *)
(* values.                                                                 *)
EXTENDS DenseHashTable, TLC

CONSTANTS t1, t2, k1, k2, k3, k4, k5, k6

MCHash == [k \in Keys |-> CASE k \in {k3, k4} -> 0 [] k = k1 -> 1 [] k = k2 -> 57 [] OTHER -> 56]
MCElements == {<<k, 0>> : k \in Keys}
MCRanges == {{<<k1, 0>>}, {<<k3, 0>>, <<k4, 0>>}}
MCWrites == {<<k1, 1>>}
MCLoads == {<<1, 2>>, <<1, 1>>}
MCPrimes == {2, 3, 5, 7, 11, 13, 17, 23, 29, 37}
MCPowers == {1, 2, 4, 8, 16, 32}
MCSymmetry == Permutations({k3, k4} \cap Keys) \cup Permutations({k5, k6} \cap Keys)
              \cup Permutations(Tables)
=============================================================================
