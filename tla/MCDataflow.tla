----------------------------- MODULE MCDataflow -----------------------------
(***************************************************************************)
(* Instances of Dataflow for TLC.                                          *)
(***************************************************************************)
EXTENDS Dataflow, TLC

CONSTANTS a, b,           \* objects
          k1, k2, v1, v2, \* kernels and views
          main, other     \* client threads

\* Two kernels that meet on both objects in opposite argument order, and a view
\* of each object.
MCAccesses ==
    [r \in Requests |-> IF r = k1 THEN <<a, b>>
                        ELSE IF r = k2 THEN <<b, a>>
                        ELSE IF r = v1 THEN <<a>> ELSE <<b>>]
MCOneCaller == [r \in Requests |-> main]

\* A kernel and a view of one object, asked for by two threads.
MCOneObject == [r \in Requests |-> <<a>>]
MCTwoCallers == [r \in Requests |-> IF r \in Views THEN main ELSE other]
=============================================================================
