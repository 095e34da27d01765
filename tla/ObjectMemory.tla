---------------------------- MODULE ObjectMemory ----------------------------
(***************************************************************************)
(* What the memory of the runtime promises to the kernels and views that   *)
(* use an object: one of them at a time has access to it, finds a version  *)
(* of its value and may leave a new one.  Of an object that is used        *)
(* coherently everybody finds the last version, until it is lost, which    *)
(* only a finalized object may be.  Of other objects, and of lost ones,    *)
(* they find some earlier version or none.  It says nothing of nodes,      *)
(* pages, tables, page faults or failures.                                 *)
(***************************************************************************)
EXTENDS Naturals

CONSTANTS Objects,   \* the objects
          Users,     \* those who access them
          Target,    \* the object of a user
          Coherent   \* the objects whose users all find the last version

VARIABLES life,    \* "unborn", "live" or "finalized"
          lost,    \* the objects whose value is gone
          value,   \* the last version of each object
          active,  \* the users that have access
          found    \* the version such a user has found, 0 if none

mvars == <<life, lost, value, active, found>>

Init ==
    /\ life = [o \in Objects |-> "unborn"]
    /\ lost = {}
    /\ value = [o \in Objects |-> 1]
    /\ active = {}
    /\ found = [u \in Users |-> 0]

Create(o) ==
    /\ life[o] = "unborn"
    /\ life' = [life EXCEPT ![o] = "live"]
    /\ UNCHANGED <<lost, value, active, found>>

Finalize(o) ==
    /\ life[o] = "live"
    /\ life' = [life EXCEPT ![o] = "finalized"]
    /\ UNCHANGED <<lost, value, active, found>>

Lose(o) ==
    /\ life[o] = "finalized"
    /\ lost' = lost \cup {o}
    /\ UNCHANGED <<life, value, active, found>>

\* User u is given access to its object, in version v.
Open(u, v) ==
    LET o == Target[u]
    IN  /\ life[o] # "unborn"
        /\ \A w \in active : Target[w] # o
        /\ v <= value[o]
        /\ o \in Coherent \ lost => v = value[o]
        /\ active' = active \cup {u}
        /\ found' = [found EXCEPT ![u] = v]
        /\ UNCHANGED <<life, lost, value>>

\* It gives it up, and may have written the object.
Close(u) ==
    /\ u \in active
    /\ active' = active \ {u}
    /\ found' = [found EXCEPT ![u] = 0]
    /\ value' \in {value, [value EXCEPT ![Target[u]] = @ + 1]}
    /\ UNCHANGED <<life, lost>>

Next ==
    \/ \E o \in Objects : Create(o) \/ Finalize(o) \/ Lose(o)
    \/ \E u \in Users : Close(u) \/ \E v \in 0..value[Target[u]] : Open(u, v)

Spec == Init /\ [][Next]_mvars

-----------------------------------------------------------------------------

\* Kernels and views take turns with an object.
OneAtATime == \A u, w \in active : Target[u] = Target[w] => u = w

\* Whoever has access to a coherent object finds what the last one wrote.
SeesLastWrite ==
    \A u \in active : Target[u] \in Coherent \ lost => found[u] = value[Target[u]]
=============================================================================
