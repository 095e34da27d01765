--------------------------- MODULE MCAddressSpace ---------------------------
(***************************************************************************)
(* Instances of AddressSpace for TLC.                                      *)
(***************************************************************************)
EXTENDS AddressSpace, TLC

CONSTANTS n1, n2,         \* nodes
          a, b,           \* objects
          k1, k2, k3, v1  \* kernels and a view

\* b is created where the users of a run, so that its page and the copies of
\* a compete for the memory of n2.
MCHome == [o \in Objects |-> IF o = a THEN n1 ELSE n2]
MCAwayFromHome == [u \in Users |-> n2]
MCTarget == [u \in Users |-> IF u = k2 THEN b ELSE a]
MCScarce == [n \in Nodes |-> 1]

\* One node.
MCOneHome == [o \in Objects |-> n1]
MCAtHome == [u \in Users |-> n1]

\* Memory for everything.
MCAmple == [n \in Nodes |-> Cardinality(Pages)]

\* The tutorial's program on two nodes: a kernel runs where its result does not
\* live, then a view shows the result.
MCViewAtHome == [u \in Users |-> IF u \in Views THEN n1 ELSE n2]
=============================================================================
