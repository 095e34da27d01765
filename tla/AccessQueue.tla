---------------------------- MODULE AccessQueue ----------------------------
(***************************************************************************)
(* What the dataflow graph of the Qubus runtime promises to the holders of *)
(* access tokens: the tokens of one object form a queue, a token is        *)
(* granted only when every token queued before it has been released, and a *)
(* token that was released is never granted again.  Mutual exclusion and   *)
(* first-come first-served order follow from the guard of Grant: the queue *)
(* is in three parts, released tokens, at most one granted token and       *)
(* waiting tokens.                                                         *)
(***************************************************************************)
EXTENDS Sequences, Naturals

CONSTANTS Objects,   \* the objects accesses are made to
          Tokens,    \* the access tokens, one per scheduled access
          ObjectOf   \* the object each token gives access to

VARIABLES queue,     \* per object, its tokens in the order they were scheduled
          granted,   \* the tokens their owner may use now
          released   \* the tokens whose owner has dropped them

qvars == <<queue, granted, released>>

Queued == {t \in Tokens : \E i \in 1..Len(queue[ObjectOf[t]]) : queue[ObjectOf[t]][i] = t}

\* Every token that was queued before t has been released.
AtFront(t) ==
    \E j \in 1..Len(queue[ObjectOf[t]]) :
        /\ queue[ObjectOf[t]][j] = t
        /\ \A i \in 1..(j - 1) : queue[ObjectOf[t]][i] \in released

Init ==
    /\ queue = [o \in Objects |-> <<>>]
    /\ granted = {}
    /\ released = {}

Enqueue(t) ==
    /\ t \notin Queued
    /\ queue' = [queue EXCEPT ![ObjectOf[t]] = Append(@, t)]
    /\ UNCHANGED <<granted, released>>

Grant(t) ==
    /\ t \notin granted \cup released
    /\ AtFront(t)
    /\ granted' = granted \cup {t}
    /\ UNCHANGED <<queue, released>>

Release(t) ==
    /\ t \in granted
    /\ granted' = granted \ {t}
    /\ released' = released \cup {t}
    /\ UNCHANGED queue

Next == \E t \in Tokens : Enqueue(t) \/ Grant(t) \/ Release(t)

Spec == Init /\ [][Next]_qvars

-----------------------------------------------------------------------------

\* At most one token of an object is granted.
Exclusive == \A s, t \in granted : ObjectOf[s] = ObjectOf[t] => s = t

\* The tokens are granted in the order in which they were queued: all before one
\* that was granted are released.
FirstComeFirstServed ==
    \A t \in granted \cup released : AtFront(t)

\* Every token is queued once, on its own object, and no released one is granted.
QueuesOK ==
    /\ queue \in [Objects -> Seq(Tokens)]
    /\ \A o \in Objects : \A i \in 1..Len(queue[o]) : ObjectOf[queue[o][i]] = o
    /\ \A o \in Objects : \A i, j \in 1..Len(queue[o]) : queue[o][i] = queue[o][j] => i = j
    /\ granted \cup released \subseteq Tokens
    /\ granted \cap released = {}
=============================================================================
