--------------------------- MODULE AssociativeMap ---------------------------
(***************************************************************************)
(* What a hash map promises: a table is a partial function from keys to    *)
(* values, and an operation changes it in one of the ways below.  It says  *)
(* nothing of buckets, probing, growth or load.                            *)
(***************************************************************************)
CONSTANTS Tables, Keys, Values,
          Ranges    \* the maps that a table is constructed from

\* map[t] is the set of the pairs <<key, value>> that table t holds.
VARIABLE map

Init == map = [t \in Tables |-> {}]

OthersUnchanged(changed) == \A u \in Tables \ changed : map'[u] = map[u]

\* The first value emplaced for a key stays: a new pair has a new key.
Insert(t) ==
    \E p \in map'[t] \ map[t] :
        /\ p \in Keys \X Values
        /\ \A q \in map[t] : q[1] # p[1]
        /\ map'[t] = map[t] \cup {p}

\* operator[] = v: inserts the key or replaces its value.
Put(t) ==
    \E p \in map'[t] \ map[t] : map'[t] = {q \in map[t] : q[1] # p[1]} \cup {p}

Erase(t) == map'[t] \subseteq map[t]

\* A constructor forgets what the table before it held.
Construct(t) == map'[t] \in Ranges

Assign(t, u) == map'[t] = map[u] /\ OthersUnchanged({t})

Move(t, u) == map'[t] = map[u] /\ map'[u] = {} /\ OthersUnchanged({t, u})

Swap(t, u) == map'[t] = map[u] /\ map'[u] = map[t] /\ OthersUnchanged({t, u})

Next ==
    \/ \E t \in Tables : (Insert(t) \/ Put(t) \/ Erase(t) \/ Construct(t)) /\ OthersUnchanged({t})
    \/ \E t, u \in Tables : t # u /\ (Assign(t, u) \/ Move(t, u) \/ Swap(t, u))

Spec == Init /\ [][Next]_map
=============================================================================
