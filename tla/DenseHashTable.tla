--------------------------- MODULE DenseHashTable ---------------------------
(***************************************************************************)
(* util/detail/dense_hash_table.hpp: the Robin Hood hash table behind      *)
(* dense_hash_map and dense_hash_set (the entry table of the address       *)
(* spaces is one).  A table is a buffer of slots that ends in a special    *)
(* entry; an element sits dist slots behind the slot its hash names, never *)
(* max_lookups or more behind, and an insertion takes the slot of an       *)
(* element that is closer to its home.  Positions count from 0 as in the   *)
(* code; the buffer is a function on 0..slots + lookups.                   *)
(*                                                                         *)
(* The loops that move elements, the tail of emplace_new_key and the end   *)
(* of erase, are taken one slot at a time.  What a rehash or a copy still  *)
(* has to emplace is the set todo; a displacement that fails half way puts *)
(* everything back into it.  A loop of the code emplaces in slot order,    *)
(* the model in any order.                                                 *)
(*                                                                         *)
(* entries_ has no initializer and only the default constructor sets it:   *)
(* what the other constructors do depends on the value that is there by    *)
(* chance, and mostly the execution becomes undefined.  A table whose      *)
(* pointer never got a value is wild.  Allocation, hashing and copying an  *)
(* element do not fail.                                                    *)
(***************************************************************************)
EXTENDS Integers, FiniteSets

CONSTANTS
    Tables,     \* the tables of a program
    Keys, Values,
    Default,    \* the value that Value() makes
    HashOf,     \* the hash of a key
    Loads,      \* the max_load_factors a program sets, as <<num, den>>
    Elements,   \* the pairs <<key, value>> that a program emplaces
    Writes,     \* the pairs <<key, value>> that it writes as table[key] = value
    Ranges,     \* the ranges and lists of elements that a program constructs from
    Requests,   \* arguments of rehash and reserve, bucket counts of constructors
    prime_list, powers_of_two,  \* the bucket counts of the two hash policies
    MaxShared,  \* bound on the elements of two tables that are both in use
    None

Pairs == Keys \X Values
AllLoads == (Nat \ {0}) \X (Nat \ {0})

ASSUME HashAssumption ==
    /\ HashOf \in [Keys -> Nat]
    /\ Elements \subseteq Pairs /\ Writes \subseteq Pairs /\ Default \in Values
    /\ \A elems \in Ranges :
          elems \subseteq Pairs /\ Cardinality(elems) \in Nat
          /\ \A p, q \in elems : p[1] = q[1] => p = q
    /\ Loads \subseteq AllLoads
    /\ Requests \subseteq Nat
    /\ prime_list \subseteq Nat \ {0} /\ powers_of_two \subseteq Nat \ {0}
    /\ None \notin Tables

VARIABLES
    tab,        \* tab[t]: the members of table t; its hasher selects the policy
    wild,       \* the tables whose entries_ has no value: entries is a stand-in there
    on,         \* the table whose member function is running, or None
    phase,      \* what it is doing there
    todo,       \* the elements it has taken and not yet emplaced
    carry,      \* "shift": the element that looks for a slot
    gap         \* "close": the slot to be moved next, and by how much

vars == <<tab, wild, on, phase, todo, carry, gap>>

-----------------------------------------------------------------------------
(* Entries.                                                                *)

NoElem == <<>>
Empty == [dist |-> -1, elem |-> NoElem]
SpecialEnd == [dist |-> 0, elem |-> NoElem]

HasValue(e) == e.dist >= 0
AtDesired(e) == e.dist <= 0

(* A value stands for itself under its key: hashing and comparing a pair   *)
(* hashes and compares its first member.                                   *)
KeyOf(elem) == elem[1]
HashObject(k) == HashOf[k]
ComparesEqual(k, elem) == elem # NoElem /\ KeyOf(elem) = k

-----------------------------------------------------------------------------
(* Hash policies.                                                          *)

min_lookups == 4
Policies == {"prime", "power_of_two"}

\* The exponent of the largest power of two that is not above n.
log2(n) == Cardinality({e \in 1..n : 2^e <= n})

Sizes(policy) == IF policy = "prime" THEN prime_list ELSE powers_of_two

\* next_size_over: the bucket count a request is rounded up to.
SizesOver(policy, n) == {s \in Sizes(policy) : s >= n}
NextSizeOver(policy, n) ==
    CHOOSE s \in SizesOver(policy, n) : \A r \in SizesOver(policy, n) : s <= r

mod(hash, p) == hash % p
mod_functions(p, hash) == IF p = 0 THEN 0 ELSE mod(hash, p)

\* prime is the modulus that commit has selected, 0 before the first.
IndexForHash(t, hash) ==
    IF t.policy = "prime" THEN mod_functions(t.prime, hash)
    ELSE mod(hash, t.slots + 1)         \* hash & num_slots_minus_one

-----------------------------------------------------------------------------
(* Sizes.  slots is num_slots_minus_one_.                                  *)

BucketCount(t) == t.slots + 1
EndPos(t) == t.slots + t.lookups
CeilDiv(a, b) == (a + b - 1) \div b
Bigger(a, b) == IF a > b THEN a ELSE b
Smaller(a, b) == IF a < b THEN a ELSE b
compute_max_lookups(n) == Bigger(min_lookups, log2(n))

\* ceil(n / min(0.5, max_load_factor_)), and ceil(n / max_load_factor_).
num_buckets_for_reserve(t, n) ==
    IF 2 * t.load[1] > t.load[2] THEN 2 * n ELSE CeilDiv(n * t.load[2], t.load[1])
BucketsFor(t) == CeilDiv(t.size * t.load[2], t.load[1])

NewBuffer(n, lookups) ==
    [i \in 0..(n + lookups - 1) |-> IF i = n + lookups - 1 THEN SpecialEnd ELSE Empty]

setup_default_table == NewBuffer(1, min_lookups - 1)

DefaultTable(policy, load) ==
    [entries |-> setup_default_table, slots |-> 0, policy |-> policy, prime |-> 0,
     lookups |-> min_lookups - 1, load |-> load, size |-> 0]

reset_to_empty_state(t) == [DefaultTable(t.policy, t.load) EXCEPT !.size = t.size]

\* What rehash moves the elements to.
NewTable(policy, n, load) ==
    [entries |-> NewBuffer(n, compute_max_lookups(n)), slots |-> n - 1, policy |-> policy,
     prime |-> n, lookups |-> compute_max_lookups(n), load |-> load, size |-> 0]

-----------------------------------------------------------------------------
(* Lookup: the probe walks on while the slots hold elements at least as    *)
(* far from home as the walk is.                                           *)

Home(t, k) == IndexForHash(t, HashObject(k))

Stops(t, k, d) ==
    LET e == t.entries[Home(t, k) + d] IN e.dist < d \/ ComparesEqual(k, e.elem)

ProbeLength(t, k) ==
    CHOOSE d \in 0..t.lookups : Stops(t, k, d) /\ \A j \in 0..(d - 1) : ~Stops(t, k, j)

Found(t, k) == t.entries[Home(t, k) + ProbeLength(t, k)].dist >= ProbeLength(t, k)

find(t, k) == IF Found(t, k) THEN Home(t, k) + ProbeLength(t, k) ELSE EndPos(t)

\* What the iterators visit: operator++ walks over empty slots and stops at the
\* special entry, begin does the same from slot 0.
Filled(t) == {i \in 0..(EndPos(t) - 1) : HasValue(t.entries[i])}
Held(t) == {t.entries[i].elem : i \in Filled(t)}

-----------------------------------------------------------------------------
(* The state of a running member function.                                 *)

NoCarry == [elem |-> NoElem, pos |-> 0, dist |-> 0, result |-> 0]
NoGap == [it |-> 0, shift |-> 0]

Becomes(t, new) == tab' = [tab EXCEPT ![t] = new]

\* t has to emplace elems; it returns when there are none.
GoesOn(t, elems) ==
    /\ on' = IF elems = {} THEN None ELSE t
    /\ phase' = IF elems = {} THEN "idle" ELSE "emplace"
    /\ todo' = elems
    /\ carry' = NoCarry /\ gap' = NoGap

Returns(t) == GoesOn(t, {})

\* A slot behind a pointer without a value is read or given back: anything may
\* happen from now on, and nothing is said of it.
Undefined ==
    /\ on' = None /\ phase' = "undefined" /\ todo' = {} /\ carry' = NoCarry /\ gap' = NoGap
    /\ UNCHANGED <<tab, wild>>

-----------------------------------------------------------------------------
(* Rehashing: the members of old, the table as it is now, move to a new    *)
(* buffer; rest is what will be emplaced afterwards.  Nothing happens when *)
(* the rounded request is the bucket count.                                *)

rehash(t, old, request, rest) ==
    LET n == Bigger(request, BucketsFor(old))
        next == NextSizeOver(old.policy, n)
    IN  \/ /\ n = 0
           /\ Becomes(t, reset_to_empty_state(old))
           /\ GoesOn(t, rest)
        \/ /\ n > 0 /\ SizesOver(old.policy, n) # {} /\ next = BucketCount(old)
           /\ Becomes(t, old)
           /\ GoesOn(t, rest)
        \/ /\ n > 0 /\ SizesOver(old.policy, n) # {} /\ next # BucketCount(old)
           /\ Becomes(t, NewTable(old.policy, next, old.load))
           /\ GoesOn(t, rest \cup Held(old))

grow(t, old, rest) == rehash(t, old, Bigger(4, 2 * BucketCount(old)), rest)

reserve(t, n) ==
    IF num_buckets_for_reserve(tab[t], n) > BucketCount(tab[t])
    THEN rehash(t, tab[t], num_buckets_for_reserve(tab[t], n), {})
    ELSE UNCHANGED tab /\ Returns(t)

rehash_for_other_container(t, old, other, rest) ==
    rehash(t, old, Smaller(num_buckets_for_reserve(old, other.size), BucketCount(other)), rest)

shrink_to_fit(t) == rehash_for_other_container(t, tab[t], tab[t], {})

-----------------------------------------------------------------------------
(* Insertion.                                                              *)

Place(t, pos, dist, elem) == [t EXCEPT !.entries[pos] = [dist |-> dist, elem |-> elem]]
PlaceNew(t, pos, dist, elem) == [Place(t, pos, dist, elem) EXCEPT !.size = @ + 1]

TooFull(t) == (t.size + 1) * t.load[2] > t.load[1] * BucketCount(t)

\* The probe for elem ended at pos, dist slots from its home.
emplace_new_key(t, pos, dist, elem, rest) ==
    LET e == tab[t].entries[pos]
        mustGrow == tab[t].slots = 0 \/ dist = tab[t].lookups \/ TooFull(tab[t])
    IN  \/ mustGrow /\ grow(t, tab[t], rest \cup {elem})
        \/ /\ ~mustGrow /\ ~HasValue(e)
           /\ Becomes(t, PlaceNew(tab[t], pos, dist, elem))
           /\ GoesOn(t, rest)
        \/ /\ ~mustGrow /\ HasValue(e)
           /\ Becomes(t, Place(tab[t], pos, dist, elem))
           /\ on' = t /\ phase' = "shift" /\ todo' = rest /\ gap' = NoGap
           /\ carry' = [elem |-> e.elem, pos |-> pos + 1, dist |-> e.dist + 1, result |-> pos]

\* Mutant of emplace: a key that is already there is inserted again.
emplaceTwice(t, elem, rest) ==
    LET d == ProbeLength(tab[t], KeyOf(elem))
    IN  emplace_new_key(t, Home(tab[t], KeyOf(elem)) + d, d, elem, rest)

emplace(t, elem, rest) ==
    LET d == ProbeLength(tab[t], KeyOf(elem))
    IN  \/ Found(tab[t], KeyOf(elem)) /\ UNCHANGED tab /\ GoesOn(t, rest)
        \/ /\ ~Found(tab[t], KeyOf(elem))
           /\ emplace_new_key(t, Home(tab[t], KeyOf(elem)) + d, d, elem, rest)

\* The tail of emplace_new_key: the carried element looks for a slot.
PutDown(t) ==
    /\ ~HasValue(tab[t].entries[carry.pos])
    /\ Becomes(t, PlaceNew(tab[t], carry.pos, carry.dist, carry.elem))
    /\ GoesOn(t, todo)

\* It takes the slot of an element that is closer to its home.
Displace(t) ==
    LET e == tab[t].entries[carry.pos] IN
    /\ HasValue(e) /\ e.dist < carry.dist
    /\ Becomes(t, Place(tab[t], carry.pos, carry.dist, carry.elem))
    /\ carry' = [carry EXCEPT !.elem = e.elem, !.pos = @ + 1, !.dist = e.dist + 1]
    /\ UNCHANGED <<on, phase, todo, gap>>

Pass(t) ==
    /\ tab[t].entries[carry.pos].dist >= carry.dist
    /\ carry.dist + 1 # tab[t].lookups
    /\ carry' = [carry EXCEPT !.pos = @ + 1, !.dist = @ + 1]
    /\ UNCHANGED <<tab, on, phase, todo, gap>>

\* Mutant of GiveUp: the carried element is not put back.
GiveUpDropsCarried(t) ==
    /\ tab[t].entries[carry.pos].dist >= carry.dist
    /\ carry.dist + 1 = tab[t].lookups
    /\ grow(t, tab[t], todo \cup {tab[t].entries[carry.result].elem})

\* It would end max_lookups away: it goes back to where the new element was put
\* first, and the new one is emplaced in a grown table.
GiveUp(t) ==
    /\ tab[t].entries[carry.pos].dist >= carry.dist
    /\ carry.dist + 1 = tab[t].lookups
    /\ grow(t, [tab[t] EXCEPT !.entries[carry.result].elem = carry.elem],
            todo \cup {tab[t].entries[carry.result].elem})

-----------------------------------------------------------------------------
(* Erasure: what follows moves back one slot until an element is at home.  *)

Cleared(t, positions) ==
    [t EXCEPT !.entries = [i \in DOMAIN @ |-> IF i \in positions THEN Empty ELSE @[i]],
              !.size = @ - Cardinality(positions)]

ClosesFrom(t, it, shift) ==
    /\ on' = t /\ phase' = "close" /\ gap' = [it |-> it, shift |-> shift]
    /\ UNCHANGED <<todo, carry>>

\* Mutant of EraseAt: the gap stays open.
EraseAtLeavesGap(t, pos) == Becomes(t, Cleared(tab[t], {pos})) /\ Returns(t)

EraseAt(t, pos) == Becomes(t, Cleared(tab[t], {pos})) /\ ClosesFrom(t, pos + 1, 1)

EraseKey(t, k) ==
    IF find(tab[t], k) = EndPos(tab[t]) THEN UNCHANGED tab /\ Returns(t)
    ELSE EraseAt(t, find(tab[t], k))

\* erase(first, last): the gap is as wide as the range, or as the first
\* element after it is far from home.  A program passes no empty range: the
\* code would move *first onto itself and then destroy it.
EraseRange(t, first, last) ==
    /\ Becomes(t, Cleared(tab[t], Filled(tab[t]) \cap first..(last - 1)))
    /\ IF last = EndPos(tab[t]) THEN Returns(t)
       ELSE ClosesFrom(t, last, Smaller(tab[t].entries[last].dist, last - first))

CloseStep(t) ==
    LET e == tab[t].entries[gap.it]
        next == tab[t].entries[gap.it + 1]
    IN  IF AtDesired(e) THEN UNCHANGED tab /\ Returns(t)
        ELSE /\ Becomes(t, [tab[t] EXCEPT
                    !.entries = [@ EXCEPT ![gap.it - gap.shift] = [e EXCEPT !.dist = @ - gap.shift],
                                          ![gap.it] = Empty]])
             /\ gap' = [it |-> gap.it + 1, shift |-> Smaller(next.dist, gap.shift)]
             /\ UNCHANGED <<on, phase, todo, carry>>

clear(t) == Cleared(t, Filled(t))

-----------------------------------------------------------------------------
(* Whole tables.  The allocators propagate on a move and are always equal. *)

CopyAssign(t, other) ==
    /\ {t, other} \cap wild = {}
    /\ rehash_for_other_container(t, [clear(tab[t]) EXCEPT !.load = tab[other].load], tab[other],
                                  Held(tab[other]))
    /\ UNCHANGED wild

\* swap_pointers swaps what entries_ is, with or without a value.
SwapsPointers(t, other) ==
    wild' = {u \in Tables : (CASE u = t -> other [] u = other -> t [] OTHER -> u) \in wild}

MoveAssign(t, other) ==
    /\ t \notin wild
    /\ tab' = [tab EXCEPT ![t] = tab[other], ![other] = reset_to_empty_state(clear(tab[t]))]
    /\ SwapsPointers(t, other)
    /\ Returns(t)

Swap(t, other) ==
    /\ tab' = [tab EXCEPT ![t] = tab[other], ![other] = tab[t]]
    /\ SwapsPointers(t, other)
    /\ Returns(t)

(* Construction, of a table in the place of one that is destroyed.         *)

max_load_factor == <<1, 2>>     \* of a new table

ConstructDefault(t) ==
    Becomes(t, DefaultTable(tab[t].policy, max_load_factor)) /\ Returns(t) /\ UNCHANGED wild

\* The other constructors rehash a table without a buffer, to request buckets and
\* an initializer list to again, and then insert elems.  A request of 0 gives
\* the buffer back first, which does no harm if the pointer happens to be null;
\* one that is rounded to the single bucket there is does nothing; any other moves
\* the elements it finds behind the pointer.
ConstructBy(t, load, request, again, elems) ==
    LET fresh == DefaultTable(tab[t].policy, load)
        next == NextSizeOver(fresh.policy, request)
        nothing == request > 0 /\ next = BucketCount(fresh)
    IN  /\ request > 0 => SizesOver(fresh.policy, request) # {}
        /\ \/ request = 0 /\ rehash(t, fresh, again, elems) /\ UNCHANGED wild
           \/ /\ nothing /\ elems = {}
              /\ Becomes(t, fresh) /\ Returns(t)
              /\ wild' = wild \cup {t}
           \/ ~(nothing /\ elems = {}) /\ Undefined

\* bucket_count alone, with a range, with an initializer list.
ConstructFilled(t) ==
    \E request \in Requests \cup {0}, elems \in Ranges \cup {{}} :
        \E again \in {0, Cardinality(elems)} : ConstructBy(t, max_load_factor, request, again, elems)

ConstructCopy(t, other) ==
    /\ other \notin wild
    /\ ConstructBy(t, tab[other].load,
                   Smaller(num_buckets_for_reserve(tab[other], tab[other].size), BucketCount(tab[other])),
                   0, Held(tab[other]))

\* The new table takes the members of other, which is left with those of a table
\* without a buffer.
ConstructMove(t, other) ==
    /\ tab' = [tab EXCEPT ![t] = tab[other], ![other] = DefaultTable(tab[t].policy, max_load_factor)]
    /\ wild' = wild \cup {other} \cup (IF other \in wild THEN {t} ELSE {})
    /\ Returns(t)

-----------------------------------------------------------------------------
(* A program that uses the tables, from one thread.                        *)

Init ==
    /\ \E policy \in Policies : tab = [t \in Tables |-> DefaultTable(policy, <<1, 2>>)]
    /\ wild = {}
    /\ on = None /\ phase = "idle" /\ todo = {} /\ carry = NoCarry /\ gap = NoGap

Idle == phase = "idle"
Ready(t) == Idle /\ t \notin wild

\* The bound MaxShared: while a table has more elements, the others stay as they
\* were constructed.
Roomy(t) == \A u \in Tables \ {t} : tab[u].slots = 0 \/ tab[t].size + tab[u].size < MaxShared

\* operator[] emplaces the default value and returns a reference; with such a
\* reference, or one from at() or an iterator, a value is written.
Emplace(t) ==
    /\ Ready(t) /\ Roomy(t)
    /\ \E elem \in Elements \cup {<<w[1], Default>> : w \in Writes} : emplace(t, elem, {})

SetValue(t) ==
    /\ Ready(t)
    /\ \E w \in Writes :
          /\ find(tab[t], w[1]) # EndPos(tab[t])
          /\ Becomes(t, [tab[t] EXCEPT !.entries[find(tab[t], w[1])].elem = w])
    /\ Returns(t)

Erase(t) ==
    /\ Ready(t)
    /\ \/ \E k \in Keys : EraseKey(t, k)
       \/ \E first \in Filled(tab[t]), last \in Filled(tab[t]) \cup {EndPos(tab[t])} :
             first < last /\ EraseRange(t, first, last)
       \/ Becomes(t, clear(tab[t])) /\ Returns(t)

Resize(t) ==
    /\ Ready(t) /\ Roomy(t)
    /\ \/ \E n \in Requests : rehash(t, tab[t], n, {}) \/ reserve(t, n)
       \/ shrink_to_fit(t)
       \/ \E load \in Loads : Becomes(t, [tab[t] EXCEPT !.load = load]) /\ Returns(t)

Exchange(t, other) ==
    /\ Idle /\ t # other
    /\ \/ Swap(t, other)
       \/ MoveAssign(t, other)
       \/ CopyAssign(t, other) /\ 2 * tab[other].size <= MaxShared

Construct(t) == Ready(t) /\ Roomy(t) /\ (ConstructDefault(t) \/ ConstructFilled(t))

ConstructFrom(t, other) ==
    /\ Ready(t) /\ t # other
    /\ \/ ConstructMove(t, other)
       \/ ConstructCopy(t, other) /\ 2 * tab[other].size <= MaxShared

\* What a program can still do with a wild table: set its load factor, rehash it to
\* nothing if the pointer happens to be null, be swapped and moved from (Exchange
\* and ConstructFrom).  All else, its destruction included, is undefined.
UseWild(t) ==
    /\ Idle /\ t \in wild
    /\ \/ Undefined
       \/ /\ Becomes(t, reset_to_empty_state(tab[t])) /\ Returns(t)
          /\ wild' = wild \ {t}
       \/ /\ \E load \in Loads : Becomes(t, [tab[t] EXCEPT !.load = load])
          /\ Returns(t)
          /\ UNCHANGED wild

EmplaceNext(t) ==
    /\ phase = "emplace" /\ on = t
    /\ \E elem \in todo : emplace(t, elem, todo \ {elem})

Shift(t) ==
    /\ phase = "shift" /\ on = t
    /\ PutDown(t) \/ Displace(t) \/ Pass(t) \/ GiveUp(t)

Close(t) == phase = "close" /\ on = t /\ CloseStep(t)

\* Nothing is known of what is executed.
Stopped == phase = "undefined" /\ UNCHANGED vars

Next ==
    \/ \E t \in Tables : Emplace(t) /\ UNCHANGED wild
    \/ \E t \in Tables : SetValue(t) /\ UNCHANGED wild
    \/ \E t \in Tables : Erase(t) /\ UNCHANGED wild
    \/ \E t \in Tables : Resize(t) /\ UNCHANGED wild
    \/ \E t, other \in Tables : Exchange(t, other)
    \/ \E t \in Tables : Construct(t)
    \/ \E t, other \in Tables : ConstructFrom(t, other)
    \/ \E t \in Tables : UseWild(t)
    \/ \E t \in Tables : EmplaceNext(t) /\ UNCHANGED wild
    \/ \E t \in Tables : Shift(t) /\ UNCHANGED wild
    \/ \E t \in Tables : Close(t) /\ UNCHANGED wild
    \/ Stopped

Spec == Init /\ [][Next]_vars

-----------------------------------------------------------------------------
(* Properties.                                                             *)

(* The parts of the inductive invariant.                                   *)

\* Types.
Entry == [dist : Nat \cup {-1}, elem : Pairs \cup {NoElem}]

Shape(t) ==
    /\ t = [entries |-> t.entries, slots |-> t.slots, policy |-> t.policy, prime |-> t.prime,
            lookups |-> t.lookups, load |-> t.load, size |-> t.size]
    /\ t.slots \in Nat /\ t.policy \in Policies /\ t.prime \in 0..(t.slots + 1)
    /\ t.lookups \in Nat \ {0} /\ t.load \in AllLoads /\ t.size \in Nat
    /\ t.entries \in [0..EndPos(t) -> Entry]
    /\ t.entries[EndPos(t)] = SpecialEnd

\* An element sits dist slots behind its home.
WellPlaced(t) ==
    \A i \in Filled(t) :
        /\ t.entries[i].elem \in Pairs
        /\ t.entries[i].dist < t.lookups
        /\ i - t.entries[i].dist = Home(t, KeyOf(t.entries[i].elem))

Distinct(t) ==
    \A i, j \in Filled(t) : KeyOf(t.entries[i].elem) = KeyOf(t.entries[j].elem) => i = j

\* No probe for an element stops before it, unless in the hole.
Ordered(t, hole) ==
    \A i \in Filled(t) : \A m \in 0..t.entries[i].dist :
        i - m \notin hole => t.entries[i - m].dist >= t.entries[i].dist - m

Counted(t) == t.size = Cardinality(Filled(t))

TableInv(t, hole) == Shape(t) /\ WellPlaced(t) /\ Distinct(t) /\ Ordered(t, hole) /\ Counted(t)

\* The elements of elems are strangers to each other and to the table.
New(t, elems) ==
    /\ elems \subseteq Pairs
    /\ \A p, q \in elems : KeyOf(p) = KeyOf(q) => p = q
    /\ \A p \in elems : \A i \in Filled(t) : KeyOf(p) # KeyOf(t.entries[i].elem)

\* The carried element c is where a probe for it would be.
CarryInv(t, c, rest) ==
    /\ c.elem \in Pairs /\ c.elem \notin rest
    /\ c.pos - c.dist = Home(t, KeyOf(c.elem))
    /\ c.dist \in 1..(t.lookups - 1)
    /\ c.result \in Filled(t)
    /\ \A m \in 1..c.dist : t.entries[c.pos - m].dist >= c.dist - m

\* The gap is empty and what follows fits into it.
Hole(g) == (g.it - g.shift)..(g.it - 1)
GapInv(t, g) ==
    /\ g.it <= EndPos(t) /\ g.shift <= g.it
    /\ ~AtDesired(t.entries[g.it]) => g.shift \in 1..t.entries[g.it].dist
    /\ \A i \in Hole(g) : ~HasValue(t.entries[i])

PhaseInv ==
    /\ on \in Tables \cup {None} /\ (on = None <=> phase \in {"idle", "undefined"})
    /\ phase \in {"idle", "emplace", "shift", "close", "undefined"}
    /\ phase # "shift" => carry = NoCarry
    /\ phase # "close" => gap = NoGap
    /\ phase \in {"idle", "close", "undefined"} => todo = {}
    /\ todo \subseteq Pairs
    /\ carry \in [elem : Pairs \cup {NoElem}, pos : Nat, dist : Nat, result : Nat]
    /\ gap \in [it : Nat, shift : Int]

\* The elements of a table, those included that a running call has in its hands.
Contents(t) ==
    Held(tab[t]) \cup
    (IF on # t THEN {} ELSE IF phase = "shift" THEN todo \cup {carry.elem} ELSE todo)

\* No call runs on a wild table, and there is nothing in it.
WildInv == wild \subseteq Tables /\ on \notin wild /\ \A t \in wild : Contents(t) = {}

IInv ==
    /\ PhaseInv
    /\ tab = [t \in Tables |-> tab[t]]
    /\ \A t \in Tables : TableInv(tab[t], IF on = t /\ phase = "close" THEN Hole(gap) ELSE {})
    /\ phase = "emplace" => New(tab[on], todo)
    /\ phase = "shift" => New(tab[on], todo \cup {carry.elem}) /\ CarryInv(tab[on], carry, todo)
    /\ phase = "close" => GapInv(tab[on], gap)

-----------------------------------------------------------------------------
Settled(t) == ~(phase = "close" /\ on = t)

\* Every element that a table holds is found by the probe from its home slot
\* within max_lookups steps, whatever insertions, displacements, erasures and
\* rehashes came before, and also in the middle of all of them but an erasure.
EveryElementIsFound ==
    \A t \in Tables : \A i \in Filled(tab[t]) :
        /\ tab[t].entries[i].dist < tab[t].lookups
        /\ Settled(t) => find(tab[t], KeyOf(tab[t].entries[i].elem)) = i

\* The count that size reports is the number of elements an iteration visits, which
\* stops at the special entry, and the buffer has the length that deallocate_data
\* is going to pass to the allocator.
SizeIsTheNumberVisited ==
    \A t \in Tables :
        /\ DOMAIN tab[t].entries = 0..EndPos(tab[t])
        /\ tab[t].entries[EndPos(tab[t])] = SpecialEnd
        /\ tab[t].size = Cardinality(Held(tab[t]))

\* No displacement and no closing of a gap runs over the special entry.
StaysInBuffer ==
    /\ phase = "shift" => carry.pos < EndPos(tab[on]) /\ carry.dist < tab[on].lookups
    /\ phase = "close" => gap.it <= EndPos(tab[on]) /\ gap.shift <= gap.it

\* Nothing that a table did before makes it lose track of an element: probing and
\* iterating find the same ones, as many as it counts; and none is put into a wild
\* table, or looked for there, before the execution is undefined.
Consistent == EveryElementIsFound /\ SizeIsTheNumberVisited /\ StaysInBuffer /\ WildInv

\* Growth, displacement and the closing of a gap lose no element: emplace and
\* every resize keep all of them, also when a displacement chain gives up half
\* way and starts over in a larger table; erase(key) removes that key alone.
LosesOnlyTheErased ==
    [][\A t \in Tables :
         LET lost == Contents(t) \ Contents(t)'
         IN  lost # {} =>
               /\ Idle /\ ~Emplace(t) /\ ~Resize(t)
               /\ \A k \in Keys : EraseKey(t, k) => \A p \in lost : KeyOf(p) = k]_vars

\* The tables implement maps: no key is ever held twice, a present key is
\* not overwritten by emplace, assignments make equal tables, a moved-from table
\* is empty, and an operation on one table leaves the others alone.  This ends where
\* a table is used whose entries_ never got a value, which the default constructor
\* and what is assigned to its tables never lead to, but any other constructor may.
Maps == INSTANCE AssociativeMap WITH map <- [t \in Tables |-> Contents(t)]
ImplementsMap == Maps!Spec
=============================================================================
