------------------------------ MODULE TokenLock ------------------------------
(***************************************************************************)
(* The interface between the dataflow graph, which hands out access        *)
(* tokens, and the kernels and views that use objects under them: an       *)
(* object is held by one user at a time, and a user that has given up its  *)
(* object, or has failed without ever holding it, does not come back.  In  *)
(* which order users get there is left open.                               *)
(***************************************************************************)

CONSTANTS Users,    \* the accesses of kernels and views
          Target    \* the object of a user

VARIABLES holding,  \* the users that hold their object
          passed    \* the users that are done with theirs

tvars == <<holding, passed>>

Init ==
    /\ holding = {}
    /\ passed = {}

Take(u) ==
    /\ u \notin passed
    /\ \A w \in holding : Target[w] # Target[u]
    /\ holding' = holding \cup {u}
    /\ UNCHANGED passed

Leave(u) ==
    /\ holding' = holding \ {u}
    /\ passed' = passed \cup {u}

Next == \E u \in Users : Take(u) \/ Leave(u)

Spec == Init /\ [][Next]_tvars

-----------------------------------------------------------------------------

\* Nobody holds an object that somebody else holds, or after being done with it.
OneHolder ==
    /\ \A u, w \in holding : Target[u] = Target[w] => u = w
    /\ holding \cap passed = {}
=============================================================================
