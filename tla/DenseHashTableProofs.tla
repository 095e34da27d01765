------------------------ MODULE DenseHashTableProofs ------------------------
(***************************************************************************)
(* Proofs about DenseHashTable, for any keys, hashes, bucket counts and    *)
(* load factors.                                                           *)
(***************************************************************************)
EXTENDS DenseHashTable, FiniteSetTheorems, WellFoundedInduction, TLAPS

-----------------------------------------------------------------------------
(* Numbers.                                                                *)

\* A set of natural numbers that is not empty has a least element.
LEMMA NatOrder ==
    \E R : IsWellFoundedOn(R, Nat) /\ \A x, y \in Nat : y < x => <<y, x>> \in R
<1>1. \A x, y \in Nat : y < x => <<y, x>> \in OpToRel(<, Nat)
  BY DEF OpToRel
<1> QED
  BY <1>1, NatLessThanWellFounded, Zenon

LEMMA Least ==
    ASSUME NEW S \in SUBSET Nat, S # {}
    PROVE  \E x \in S : \A y \in S : x <= y
<1>1. PICK R : IsWellFoundedOn(R, Nat) /\ \A x, y \in Nat : y < x => <<y, x>> \in R
  BY NatOrder
<1>2. PICK x \in S : \A y \in S : ~(<<y, x>> \in R)
  BY <1>1, WFMin, Zenon
<1>3. \A y \in S : ~(y < x)
  BY <1>1, <1>2, Zenon
<1>4. \A y \in S : x <= y
  BY <1>3
<1> QED
  BY <1>4

\* The limit on the lookups is positive.
LEMMA LookupsType ==
    ASSUME NEW n \in Nat
    PROVE  compute_max_lookups(n) \in Nat \ {0}
<1>1. IsFiniteSet({e \in 1..n : 2^e <= n})
  BY FS_Interval, FS_Subset, 1 \in Int, n \in Int, {e \in 1..n : 2^e <= n} \in SUBSET (1..n)
<1>2. log2(n) \in Nat
  BY <1>1, FS_CardinalityType DEF log2
<1> QED
  BY <1>2 DEF compute_max_lookups, Bigger, min_lookups

\* Rounding up a quotient: it is zero only for zero.
LEMMA CeilDivType ==
    ASSUME NEW a \in Nat, NEW b \in Nat \ {0}
    PROVE  CeilDiv(a, b) \in Nat /\ (CeilDiv(a, b) = 0 => a = 0)
BY DEF CeilDiv

LEMMA BucketsType ==
    ASSUME NEW t, Shape(t)
    PROVE  /\ BucketsFor(t) \in Nat
           /\ BucketsFor(t) = 0 => t.size = 0
           /\ \A n \in Nat : num_buckets_for_reserve(t, n) \in Nat
<1>1. t.load[1] \in Nat \ {0} /\ t.load[2] \in Nat \ {0} /\ t.size \in Nat
  BY DEF Shape, AllLoads
<1>2. \A n \in Nat : n * t.load[2] \in Nat /\ 2 * n \in Nat /\ (n * t.load[2] = 0 => n = 0)
  BY <1>1
<1> QED
  BY <1>1, <1>2, CeilDivType DEF BucketsFor, num_buckets_for_reserve

-----------------------------------------------------------------------------
(* Lookup.                                                                 *)

LEMMA HomeType ==
    ASSUME NEW t, Shape(t), NEW k \in Keys
    PROVE  Home(t, k) \in 0..t.slots
<1>1. HashOf[k] \in Nat /\ t.slots \in Nat /\ t.prime \in 0..(t.slots + 1)
  BY HashAssumption DEF Shape
<1>2. \A p \in Nat \ {0} : HashOf[k] % p \in 0..(p - 1)
  BY <1>1
<1> QED
  BY <1>1, <1>2 DEF Home, HashObject, IndexForHash, mod_functions, mod

LEMMA HomeSame ==
    ASSUME NEW t, NEW u, NEW k, u.slots = t.slots, u.policy = t.policy, u.prime = t.prime
    PROVE  Home(u, k) = Home(t, k)
BY DEF Home, HashObject, IndexForHash, mod_functions, mod

\* The entries of a table, one by one.
LEMMA EntryType ==
    ASSUME NEW t, Shape(t)
    PROVE  /\ t.slots \in Nat /\ t.lookups \in Nat \ {0} /\ EndPos(t) \in Nat
           /\ EndPos(t) = t.slots + t.lookups
           /\ \A i \in 0..EndPos(t) : t.entries[i].dist \in Nat \cup {-1}
           /\ t.entries[EndPos(t)].dist = 0 /\ t.entries[EndPos(t)].elem = NoElem
           /\ Filled(t) \subseteq 0..(EndPos(t) - 1)
           /\ \A i \in 0..(EndPos(t) - 1) : i \in Filled(t) <=> t.entries[i].dist >= 0
BY DEF Shape, EndPos, Entry, SpecialEnd, Filled, HasValue

\* Every probe ends within max_lookups steps and does not pass the special entry.
LEMMA ProbeEnds ==
    ASSUME NEW t, Shape(t), WellPlaced(t), NEW k \in Keys
    PROVE  /\ ProbeLength(t, k) \in 0..t.lookups
           /\ Stops(t, k, ProbeLength(t, k))
           /\ \A j \in 0..(ProbeLength(t, k) - 1) : ~Stops(t, k, j)
<1> DEFINE S == {d \in 0..t.lookups : Stops(t, k, d)}
<1>1. Home(t, k) \in 0..t.slots
  BY HomeType
<1>2. Home(t, k) + t.lookups \in 0..EndPos(t)
  BY <1>1, EntryType
<1>3. \A i \in 0..EndPos(t) : t.entries[i].dist < t.lookups
  BY EntryType DEF WellPlaced
<1>4. Stops(t, k, t.lookups)
  BY <1>2, <1>3 DEF Stops
<1>5. S \in SUBSET Nat /\ S # {}
  BY <1>4, EntryType
<1>6. PICK x \in S : \A y \in S : x <= y
  BY <1>5, Least
<1>7. x \in 0..t.lookups /\ Stops(t, k, x) /\ \A j \in 0..(x - 1) : ~Stops(t, k, j)
  <2>1. x \in 0..t.lookups /\ Stops(t, k, x)
    BY <1>6
  <2>2. ASSUME NEW j \in 0..(x - 1), Stops(t, k, j) PROVE FALSE
    <3>1. j \in S
      BY <2>1, <2>2, EntryType
    <3> QED
      BY <3>1, <1>6, <2>1
  <2> QED
    BY <2>1, <2>2
<1> QED
  BY <1>7 DEF ProbeLength

\* Where a probe ends is fixed by what it meets.
LEMMA ProbeIs ==
    ASSUME NEW t, Shape(t), WellPlaced(t), NEW k \in Keys, NEW d \in 0..t.lookups,
           Stops(t, k, d), \A j \in 0..(d - 1) : ~Stops(t, k, j)
    PROVE  ProbeLength(t, k) = d
<1> DEFINE p == ProbeLength(t, k)
<1>1. p \in 0..t.lookups /\ Stops(t, k, p) /\ \A j \in 0..(p - 1) : ~Stops(t, k, j)
  BY ProbeEnds
<1>2. p \in Int /\ d \in Int /\ t.lookups \in Nat
  BY <1>1, EntryType
<1>3. ~(d < p) /\ ~(p < d)
  BY <1>1, <1>2
<1> QED
  BY <1>2, <1>3

\* An element of a table without a hole is found where it is.
LEMMA ElementFound ==
    ASSUME NEW t, Shape(t), WellPlaced(t), Distinct(t), Ordered(t, {}), NEW i \in Filled(t)
    PROVE  /\ Found(t, KeyOf(t.entries[i].elem))
           /\ find(t, KeyOf(t.entries[i].elem)) = i
<1> DEFINE k == KeyOf(t.entries[i].elem)
           d == t.entries[i].dist
           h == Home(t, k)
<1>1. i \in 0..(EndPos(t) - 1) /\ d \in Nat /\ d < t.lookups /\ EndPos(t) \in Nat
  BY EntryType DEF WellPlaced
<1>2. t.entries[i].elem \in Pairs /\ k \in Keys /\ t.entries[i].elem # NoElem
  BY DEF WellPlaced, Pairs, KeyOf, NoElem
<1>3. h \in Nat /\ i = h + d
  BY <1>1, <1>2, HomeType, EntryType DEF WellPlaced
<1>4. Stops(t, k, d)
  BY <1>2, <1>3 DEF Stops, ComparesEqual
<1>5. ASSUME NEW j \in 0..(d - 1) PROVE ~Stops(t, k, j)
  <2>1. h + j \in 0..(EndPos(t) - 1) /\ h + j < i /\ j \in Nat
    BY <1>1, <1>3
  <2>2. t.entries[h + j].dist >= j
    <3>1. d - j \in 0..d /\ i - (d - j) = h + j /\ d - (d - j) = j
      BY <1>1, <1>3, <2>1
    <3> QED
      BY <3>1, <1>1 DEF Ordered
  <2>3. h + j \in Filled(t)
    BY <2>1, <2>2, EntryType
  <2>4. KeyOf(t.entries[h + j].elem) # k
    BY <2>1, <2>3, <1>1 DEF Distinct
  <2> QED
    BY <2>2, <2>4, <2>1, EntryType DEF Stops, ComparesEqual
<1>6. ProbeLength(t, k) = d
  BY <1>1, <1>2, <1>4, <1>5, ProbeIs, EntryType
<1> QED
  BY <1>1, <1>3, <1>6 DEF Found, find

\* What a probe that fails has seen.
LEMMA ProbeFails ==
    ASSUME NEW t, Shape(t), WellPlaced(t), NEW k \in Keys, ~Found(t, k)
    PROVE  /\ find(t, k) = EndPos(t)
           /\ ProbeLength(t, k) \in 0..t.lookups
           /\ Home(t, k) \in 0..t.slots
           /\ t.entries[Home(t, k) + ProbeLength(t, k)].dist < ProbeLength(t, k)
           /\ \A j \in 0..(ProbeLength(t, k) - 1) : t.entries[Home(t, k) + j].dist >= j
<1> DEFINE p == ProbeLength(t, k)
           h == Home(t, k)
<1>1. p \in 0..t.lookups /\ h \in 0..t.slots /\ Stops(t, k, p)
      /\ \A j \in 0..(p - 1) : ~Stops(t, k, j)
  BY ProbeEnds, HomeType
<1>2. \A j \in 0..p : h + j \in 0..EndPos(t) /\ t.entries[h + j].dist \in Int
  BY <1>1, EntryType
<1>3. t.entries[h + p].dist < p
  BY <1>1, <1>2, EntryType DEF Found
<1>4. \A j \in 0..(p - 1) : t.entries[h + j].dist >= j
  BY <1>1, <1>2, EntryType DEF Stops
<1> QED
  BY <1>1, <1>3, <1>4 DEF find

\* What a probe finds.
LEMMA ProbeHits ==
    ASSUME NEW t, Shape(t), WellPlaced(t), NEW k \in Keys, Found(t, k)
    PROVE  find(t, k) \in Filled(t) /\ KeyOf(t.entries[find(t, k)].elem) = k
           /\ find(t, k) # EndPos(t)
<1> DEFINE p == ProbeLength(t, k)
           h == Home(t, k)
<1>1. p \in 0..t.lookups /\ h \in 0..t.slots /\ Stops(t, k, p) /\ find(t, k) = h + p
  BY ProbeEnds, HomeType DEF find
<1>2. h + p \in 0..EndPos(t) /\ t.entries[h + p].dist >= p /\ t.entries[h + p].dist \in Int
  BY <1>1, EntryType DEF Found
<1>3. h + p # EndPos(t)
  BY <1>1, <1>2, EntryType
<1>4. h + p \in Filled(t)
  BY <1>1, <1>2, <1>3, EntryType
<1>5. ComparesEqual(k, t.entries[h + p].elem)
  BY <1>1, <1>2, EntryType DEF Stops
<1> QED
  BY <1>1, <1>3, <1>4, <1>5 DEF ComparesEqual

-----------------------------------------------------------------------------
(* Tables without elements.                                                *)

LEMMA NewBufferType ==
    ASSUME NEW n \in Nat, NEW l \in Nat \ {0}, NEW m \in Nat, m = n + l - 1
    PROVE  /\ NewBuffer(n, l) \in [0..m -> Entry]
           /\ NewBuffer(n, l)[m] = SpecialEnd
           /\ \A i \in 0..(m - 1) : NewBuffer(n, l)[i] = Empty
<1>1. Empty \in Entry /\ SpecialEnd \in Entry
  BY DEF Empty, SpecialEnd, Entry
<1> QED
  BY <1>1 DEF NewBuffer

\* A table none of whose entries has a value satisfies the invariant.
LEMMA BareInv ==
    ASSUME NEW t, Shape(t), t.size = 0, \A i \in 0..(EndPos(t) - 1) : t.entries[i] = Empty
    PROVE  TableInv(t, {}) /\ Filled(t) = {} /\ Held(t) = {}
<1>1. Filled(t) = {}
  BY DEF Filled, HasValue, Empty
<1> QED
  BY <1>1, FS_EmptySet DEF TableInv, WellPlaced, Distinct, Ordered, Counted, Held

LEMMA DefaultInv ==
    ASSUME NEW policy \in Policies, NEW load \in AllLoads, NEW t,
           t = DefaultTable(policy, load)
    PROVE  TableInv(t, {}) /\ Filled(t) = {} /\ Held(t) = {}
<1>1. /\ t.entries = NewBuffer(1, 3) /\ t.slots = 0 /\ t.policy = policy /\ t.prime = 0
      /\ t.lookups = 3 /\ t.load = load /\ t.size = 0
      /\ t = [entries |-> t.entries, slots |-> t.slots, policy |-> t.policy,
              prime |-> t.prime, lookups |-> t.lookups, load |-> t.load, size |-> t.size]
  BY DEF DefaultTable, setup_default_table, min_lookups
<1>2. /\ NewBuffer(1, 3) \in [0..3 -> Entry] /\ NewBuffer(1, 3)[3] = SpecialEnd
      /\ \A i \in 0..(3 - 1) : NewBuffer(1, 3)[i] = Empty
  BY DEF NewBuffer, Entry, Empty, SpecialEnd
<1>3. EndPos(t) = 3
  BY <1>1 DEF EndPos
<1>4. Shape(t)
  BY <1>1, <1>2, <1>3 DEF Shape
<1> QED
  BY <1>1, <1>2, <1>3, <1>4, BareInv

LEMMA NewTableInv ==
    ASSUME NEW policy \in Policies, NEW load \in AllLoads, NEW n \in Nat \ {0}, NEW t,
           t = NewTable(policy, n, load)
    PROVE  TableInv(t, {}) /\ Filled(t) = {} /\ Held(t) = {}
<1> DEFINE l == compute_max_lookups(n)
<1>1. l \in Nat \ {0}
  BY LookupsType
<1>2. /\ t.entries = NewBuffer(n, l) /\ t.slots = n - 1 /\ t.policy = policy /\ t.prime = n
      /\ t.lookups = l /\ t.load = load /\ t.size = 0
      /\ t = [entries |-> t.entries, slots |-> t.slots, policy |-> t.policy,
              prime |-> t.prime, lookups |-> t.lookups, load |-> t.load, size |-> t.size]
  BY DEF NewTable
<1> HIDE DEF l
<1>3. EndPos(t) = n + l - 1 /\ EndPos(t) \in Nat
  BY <1>1, <1>2 DEF EndPos
<1>4. Shape(t)
  <2>1. t.entries \in [0..EndPos(t) -> Entry] /\ t.entries[EndPos(t)] = SpecialEnd
    BY <1>1, <1>2, <1>3, NewBufferType
  <2> QED
    BY <1>1, <1>2, <2>1 DEF Shape
<1>5. \A i \in 0..(EndPos(t) - 1) : t.entries[i] = Empty
  BY <1>1, <1>2, <1>3, NewBufferType
<1> QED
  BY <1>2, <1>4, <1>5, BareInv

LEMMA ResetInv ==
    ASSUME NEW t, t.policy \in Policies, t.load \in AllLoads, t.size = 0, NEW u,
           u = reset_to_empty_state(t)
    PROVE  TableInv(u, {}) /\ Filled(u) = {} /\ Held(u) = {}
<1>1. u = DefaultTable(t.policy, t.load)
  BY DEF reset_to_empty_state, DefaultTable
<1> QED
  BY <1>1, DefaultInv

-----------------------------------------------------------------------------
(* Tables one of whose entries has changed.                                *)

\* Everything but the entries and the size.
SameBuffer(u, t) ==
    /\ u.slots = t.slots /\ u.policy = t.policy /\ u.prime = t.prime
    /\ u.lookups = t.lookups /\ u.load = t.load

\* dist and elem are written to slot pos.
WithEntry(t, pos, dist, elem, n) ==
    [t EXCEPT !.entries = [@ EXCEPT ![pos] = [dist |-> dist, elem |-> elem]], !.size = n]

\* u is t with an element put at pos and the size n.
PlacedAt(t, pos, dist, elem, n, u) ==
    /\ Shape(u) /\ SameBuffer(u, t) /\ u.size = n /\ EndPos(u) = EndPos(t)
    /\ Filled(u) = Filled(t) \cup {pos}
    /\ u.entries[pos].dist = dist /\ u.entries[pos].elem = elem
    /\ \A i \in 0..EndPos(t) : i # pos => u.entries[i] = t.entries[i]
    /\ \A k \in Keys : Home(u, k) = Home(t, k)

LEMMA PlaceFields ==
    ASSUME NEW t, Shape(t), NEW pos \in 0..(EndPos(t) - 1), NEW dist \in Nat, NEW elem \in Pairs,
           NEW n \in Nat, NEW u, u = WithEntry(t, pos, dist, elem, n)
    PROVE  PlacedAt(t, pos, dist, elem, n, u)
<1> DEFINE e == [dist |-> dist, elem |-> elem]
           f == [t.entries EXCEPT ![pos] = e]
<1>1. /\ t.entries \in [0..EndPos(t) -> Entry] /\ pos # EndPos(t) /\ pos \in 0..EndPos(t)
      /\ EndPos(t) \in Nat
  <2>1. t.entries \in [0..EndPos(t) -> Entry]
    BY DEF Shape
  <2>2. EndPos(t) \in Nat
    BY EntryType
  <2> QED
    BY <2>1, <2>2
<1>2. e \in Entry /\ e.dist = dist /\ e.elem = elem
  BY DEF Entry
<1> HIDE DEF e
<1>3. f \in [0..EndPos(t) -> Entry] /\ f[pos] = e /\ \A i \in 0..EndPos(t) : i # pos => f[i] = t.entries[i]
  BY <1>1, <1>2
<1>4. u = [t EXCEPT !.entries = f, !.size = n]
  BY DEF e, WithEntry
<1> HIDE DEF f
<1>5. /\ u.entries = f /\ u.size = n /\ SameBuffer(u, t)
      /\ u = [entries |-> u.entries, slots |-> u.slots, policy |-> u.policy,
              prime |-> u.prime, lookups |-> u.lookups, load |-> u.load, size |-> u.size]
  BY <1>4 DEF Shape, SameBuffer
<1>6. EndPos(u) = EndPos(t)
  BY <1>5 DEF EndPos, SameBuffer
<1>7. Shape(u)
  BY <1>1, <1>3, <1>5, <1>6 DEF Shape, SameBuffer
<1>8. Filled(u) = Filled(t) \cup {pos}
  BY <1>1, <1>2, <1>3, <1>5, <1>6 DEF Filled, HasValue
<1> QED
  BY <1>1, <1>2, <1>3, <1>5, <1>6, <1>7, <1>8, HomeSame DEF SameBuffer, PlacedAt

-----------------------------------------------------------------------------
(* Insertion.                                                              *)

LEMMA FilledFinite ==
    ASSUME NEW t, Shape(t)
    PROVE  IsFiniteSet(Filled(t))
<1>1. EndPos(t) - 1 \in Int /\ Filled(t) \in SUBSET (0..(EndPos(t) - 1))
  BY EntryType
<1>2. IsFiniteSet(0..(EndPos(t) - 1))
  BY <1>1, FS_Interval
<1> QED
  BY <1>1, <1>2, FS_Subset

\* The elements of elems can be put somewhere in the table: pos is dist slots behind
\* the home of elem, and a probe for elem would come as far.
Fits(t, pos, dist, elem) ==
    /\ elem \in Pairs /\ pos \in 0..(EndPos(t) - 1) /\ dist \in 0..(t.lookups - 1)
    /\ pos - dist = Home(t, KeyOf(elem))
    /\ \A m \in 1..dist : t.entries[pos - m].dist >= dist - m
    /\ \A i \in Filled(t) : KeyOf(t.entries[i].elem) # KeyOf(elem)

\* What an element that is put at pos, where nobody is farther from home, leaves true.
LEMMA PlaceInv ==
    ASSUME NEW t, TableInv(t, {}), NEW pos, NEW dist, NEW elem, Fits(t, pos, dist, elem),
           t.entries[pos].dist < dist, NEW n \in Nat, NEW u,
           u = WithEntry(t, pos, dist, elem, n)
    PROVE  /\ Shape(u) /\ WellPlaced(u) /\ Distinct(u) /\ Ordered(u, {})
           /\ SameBuffer(u, t) /\ u.size = n /\ EndPos(u) = EndPos(t)
           /\ Filled(u) = Filled(t) \cup {pos}
           /\ u.entries[pos].dist = dist /\ u.entries[pos].elem = elem
           /\ \A i \in 0..EndPos(t) : i # pos => u.entries[i] = t.entries[i]
           /\ \A k \in Keys : Home(u, k) = Home(t, k)
<1>1. /\ elem \in Pairs /\ pos \in 0..(EndPos(t) - 1) /\ dist \in Nat /\ Shape(t)
      /\ dist < t.lookups /\ pos - dist = Home(t, KeyOf(elem)) /\ KeyOf(elem) \in Keys
  BY EntryType DEF Fits, TableInv, Pairs, KeyOf
<1>2. /\ Shape(u) /\ SameBuffer(u, t) /\ u.size = n /\ EndPos(u) = EndPos(t)
      /\ Filled(u) = Filled(t) \cup {pos}
      /\ u.entries[pos].dist = dist /\ u.entries[pos].elem = elem
      /\ \A i \in 0..EndPos(t) : i # pos => u.entries[i] = t.entries[i]
      /\ \A k \in Keys : Home(u, k) = Home(t, k)
  <2>1. PlacedAt(t, pos, dist, elem, n, u)
    BY <1>1, PlaceFields
  <2> QED
    BY <2>1 DEF PlacedAt
<1>3. \A i \in Filled(u) : i # pos => i \in Filled(t) /\ u.entries[i] = t.entries[i]
  BY <1>1, <1>2, EntryType
<1>4. WellPlaced(u)
  <2> SUFFICES ASSUME NEW i \in Filled(u)
               PROVE  /\ u.entries[i].elem \in Pairs
                      /\ u.entries[i].dist < u.lookups
                      /\ i - u.entries[i].dist = Home(u, KeyOf(u.entries[i].elem))
    BY DEF WellPlaced
  <2>1. CASE i = pos
    BY <2>1, <1>1, <1>2 DEF SameBuffer
  <2>2. CASE i # pos
    <3>1. i \in Filled(t) /\ u.entries[i] = t.entries[i]
      BY <2>2, <1>3
    <3>2. /\ t.entries[i].elem \in Pairs /\ t.entries[i].dist < t.lookups
          /\ i - t.entries[i].dist = Home(t, KeyOf(t.entries[i].elem))
      BY <3>1 DEF TableInv, WellPlaced
    <3>3. KeyOf(t.entries[i].elem) \in Keys
      BY <3>2 DEF Pairs, KeyOf
    <3> QED
      BY <3>1, <3>2, <3>3, <1>2 DEF SameBuffer
  <2> QED
    BY <2>1, <2>2
<1>5. Distinct(u)
  <2> SUFFICES ASSUME NEW i \in Filled(u), NEW j \in Filled(u),
                      KeyOf(u.entries[i].elem) = KeyOf(u.entries[j].elem)
               PROVE  i = j
    BY DEF Distinct
  <2>1. CASE i # pos /\ j # pos
    BY <2>1, <1>3 DEF TableInv, Distinct
  <2>2. CASE i = pos \/ j = pos
    BY <2>2, <1>2, <1>3 DEF Fits
  <2> QED
    BY <2>1, <2>2
<1>6. Ordered(u, {})
  <2> SUFFICES ASSUME NEW i \in Filled(u), NEW m \in 0..u.entries[i].dist
               PROVE  u.entries[i - m].dist >= u.entries[i].dist - m
    BY DEF Ordered
  <2>0. /\ i \in 0..(EndPos(t) - 1) /\ u.entries[i].dist \in Nat /\ m \in Nat
        /\ i - u.entries[i].dist \in Nat
    <3>0. EndPos(u) \in Nat /\ i \in 0..(EndPos(u) - 1)
      BY <1>2, EntryType
    <3>1. i \in 0..(EndPos(u) - 1) /\ u.entries[i].dist \in Nat
      BY <3>0, <1>2, EntryType
    <3>2. u.entries[i].elem \in Pairs /\ i - u.entries[i].dist = Home(u, KeyOf(u.entries[i].elem))
      BY <1>4 DEF WellPlaced
    <3>3. Home(u, KeyOf(u.entries[i].elem)) \in Nat
      BY <3>2, <1>2, HomeType, EntryType DEF Pairs, KeyOf
    <3> QED
      BY <3>1, <3>2, <3>3, <1>2
  <2>1. CASE i = pos
    <3>1. CASE m = 0
      BY <3>1, <2>1, <2>0
    <3>2. CASE m # 0
      <4>1. m \in 1..dist /\ pos - m # pos /\ pos - m \in 0..EndPos(t)
        BY <3>2, <2>1, <2>0, <1>1, <1>2, EntryType
      <4>2. u.entries[pos - m] = t.entries[pos - m]
        BY <4>1, <1>2
      <4> QED
        BY <4>1, <4>2, <2>1, <1>2 DEF Fits
    <3> QED
      BY <3>1, <3>2
  <2>2. CASE i # pos
    <3>1. i \in Filled(t) /\ u.entries[i] = t.entries[i]
      BY <2>2, <1>3
    <3>2. t.entries[i - m].dist >= t.entries[i].dist - m
      BY <3>1 DEF TableInv, Ordered
    <3>3. i - m \in 0..EndPos(t)
      BY <2>0, EntryType, <1>1
    <3>4. CASE i - m = pos
      BY <3>1, <3>2, <3>4, <2>0, <1>1, <1>2, EntryType
    <3>5. CASE i - m # pos
      BY <3>1, <3>2, <3>3, <3>5, <1>2
    <3> QED
      BY <3>4, <3>5
  <2> QED
    BY <2>1, <2>2
<1> QED
  BY <1>2, <1>4, <1>5, <1>6

\* An element is put into an empty slot.
LEMMA PlaceNewInv ==
    ASSUME NEW t, TableInv(t, {}), NEW pos, NEW dist, NEW elem, Fits(t, pos, dist, elem),
           ~HasValue(t.entries[pos]), NEW u, u = PlaceNew(t, pos, dist, elem)
    PROVE  /\ TableInv(u, {}) /\ EndPos(u) = EndPos(t)
           /\ Held(u) = Held(t) \cup {elem}
<1>0. Shape(t)
  BY DEF TableInv
<1>1. /\ pos \in 0..(EndPos(t) - 1) /\ pos \in 0..EndPos(t) /\ dist \in Nat /\ elem \in Pairs
      /\ t.size \in Nat /\ pos \notin Filled(t) /\ Shape(t)
  <2>1. t.size \in Nat
    BY <1>0 DEF Shape
  <2> QED
    BY <1>0, <2>1, EntryType DEF Fits, HasValue
<1>2. t.entries[pos].dist < dist
  BY <1>1, EntryType DEF HasValue
<1>3. u = WithEntry(t, pos, dist, elem, t.size + 1)
  BY <1>1 DEF PlaceNew, Place, Shape, WithEntry
<1>4. /\ Shape(u) /\ WellPlaced(u) /\ Distinct(u) /\ Ordered(u, {}) /\ u.size = t.size + 1
      /\ EndPos(u) = EndPos(t) /\ Filled(u) = Filled(t) \cup {pos}
      /\ u.entries[pos].elem = elem
      /\ \A i \in 0..EndPos(t) : i # pos => u.entries[i] = t.entries[i]
  BY <1>1, <1>2, <1>3, PlaceInv
<1>5. Counted(u)
  <2>1. t.size = Cardinality(Filled(t))
    BY DEF TableInv, Counted
  <2>2. IsFiniteSet(Filled(t))
    BY <1>1, FilledFinite
  <2>3. Cardinality(Filled(t) \cup {pos}) = Cardinality(Filled(t)) + 1
    BY <2>2, <1>1, FS_AddElement
  <2> QED
    BY <2>1, <2>3, <1>4 DEF Counted
<1>6. Held(u) = Held(t) \cup {elem}
  <2>1. \A i \in Filled(t) : i # pos /\ i \in 0..EndPos(t)
    BY <1>1, EntryType
  <2> QED
    BY <2>1, <1>4 DEF Held
<1> QED
  BY <1>4, <1>5, <1>6 DEF TableInv

\* An element takes the slot of one that is closer to its home, which can then be put
\* one slot further on if it may be another slot away from home.
LEMMA PlaceOverInv ==
    ASSUME NEW t, TableInv(t, {}), NEW pos, NEW dist, NEW elem, Fits(t, pos, dist, elem),
           HasValue(t.entries[pos]), t.entries[pos].dist < dist,
           NEW u, u = Place(t, pos, dist, elem), NEW e, e = t.entries[pos]
    PROVE  /\ TableInv(u, {}) /\ EndPos(u) = EndPos(t) /\ SameBuffer(u, t)
           /\ Filled(u) = Filled(t) /\ pos \in Filled(u)
           /\ Held(u) \cup {e.elem} = Held(t) \cup {elem}
           /\ e.elem \in Pairs /\ KeyOf(e.elem) # KeyOf(elem) /\ e.elem \in Held(t)
           /\ pos + 1 - (e.dist + 1) = Home(u, KeyOf(e.elem))
           /\ e.dist + 1 \in 1..(u.lookups - 1)
           /\ \A m \in 1..(e.dist + 1) : u.entries[pos + 1 - m].dist >= e.dist + 1 - m
           /\ \A i \in Filled(u) : KeyOf(u.entries[i].elem) # KeyOf(e.elem)
           /\ \A i \in Filled(u) : u.entries[i].elem = elem \/ u.entries[i] = t.entries[i]
<1>1. /\ Shape(t) /\ pos \in 0..EndPos(t) /\ dist \in Nat /\ dist < t.lookups /\ t.size \in Nat
      /\ pos \in Filled(t) /\ pos \in 0..(EndPos(t) - 1) /\ EndPos(t) \in Nat
      /\ e.dist \in Nat /\ e.dist < dist /\ elem \in Pairs
  <2>1. Shape(t) /\ t.size \in Nat
    BY DEF TableInv, Shape
  <2> QED
    BY <2>1, EntryType DEF Fits, HasValue
<1>2. u = WithEntry(t, pos, dist, elem, t.size)
  BY <1>1 DEF Place, Shape, WithEntry
<1>3. /\ Shape(u) /\ WellPlaced(u) /\ Distinct(u) /\ Ordered(u, {}) /\ u.size = t.size
      /\ SameBuffer(u, t) /\ EndPos(u) = EndPos(t) /\ Filled(u) = Filled(t) \cup {pos}
      /\ u.entries[pos].dist = dist /\ u.entries[pos].elem = elem
      /\ \A i \in 0..EndPos(t) : i # pos => u.entries[i] = t.entries[i]
      /\ \A k \in Keys : Home(u, k) = Home(t, k)
  BY <1>1, <1>2, PlaceInv
<1>4. Filled(u) = Filled(t) /\ pos \in Filled(u) /\ Counted(u)
  BY <1>1, <1>3 DEF Counted, TableInv
<1>5. \A i \in Filled(t) : i \in 0..EndPos(t)
  BY <1>1, EntryType
<1>6. Held(u) \cup {e.elem} = Held(t) \cup {elem} /\ e.elem \in Held(t)
  BY <1>1, <1>3, <1>4, <1>5 DEF Held
<1>7. e.elem \in Pairs /\ KeyOf(e.elem) \in Keys /\ KeyOf(e.elem) # KeyOf(elem)
      /\ pos - e.dist = Home(t, KeyOf(e.elem))
  BY <1>1 DEF TableInv, WellPlaced, Fits, Pairs, KeyOf
<1>8. pos + 1 - (e.dist + 1) = Home(u, KeyOf(e.elem)) /\ e.dist + 1 \in 1..(u.lookups - 1)
  BY <1>1, <1>3, <1>7, EntryType DEF SameBuffer
<1>9. ASSUME NEW m \in 1..(e.dist + 1)
      PROVE  u.entries[pos + 1 - m].dist >= e.dist + 1 - m
  <2>1. CASE m = 1
    BY <2>1, <1>1, <1>3
  <2>2. CASE m # 1
    <3>1. m - 1 \in 0..e.dist /\ pos - (m - 1) # pos /\ pos - (m - 1) = pos + 1 - m
      BY <2>2, <1>1
    <3>2. t.entries[pos - (m - 1)].dist >= e.dist - (m - 1)
      BY <3>1, <1>1 DEF TableInv, Ordered
    <3>3. pos - (m - 1) \in 0..EndPos(t)
      BY <3>1, <1>1, <1>7, HomeType, EntryType
    <3>4. e.dist - (m - 1) = e.dist + 1 - m
      BY <1>1
    <3> QED
      BY <3>1, <3>2, <3>3, <3>4, <1>3
  <2> QED
    BY <2>1, <2>2
<1>10. ASSUME NEW i \in Filled(u) PROVE KeyOf(u.entries[i].elem) # KeyOf(e.elem)
  <2>1. CASE i = pos
    BY <2>1, <1>3, <1>7
  <2>2. CASE i # pos
    <3>1. i \in Filled(t) /\ u.entries[i] = t.entries[i]
      BY <2>2, <1>3, <1>4, <1>5
    <3> QED
      BY <3>1, <2>2, <1>1 DEF TableInv, Distinct
  <2> QED
    BY <2>1, <2>2
<1> QED
  BY <1>3, <1>4, <1>5, <1>6, <1>7, <1>8, <1>9, <1>10 DEF TableInv

-----------------------------------------------------------------------------
(* Erasure.                                                                *)

LEMMA SubsetCount ==
    ASSUME NEW A, IsFiniteSet(A), NEW B \in SUBSET A
    PROVE  /\ Cardinality(A) \in Nat /\ Cardinality(B) \in Nat
           /\ Cardinality(A \ B) = Cardinality(A) - Cardinality(B)
           /\ Cardinality(A \ B) \in Nat
<1>1. IsFiniteSet(B) /\ IsFiniteSet(A \ B)
  BY FS_Subset, A \ B \in SUBSET A
<1>2. (A \ B) \cup B = A /\ (A \ B) \cap B = {}
  OBVIOUS
<1>3. Cardinality(A) = Cardinality(A \ B) + Cardinality(B) - Cardinality({})
  BY <1>1, <1>2, FS_Union
<1> QED
  BY <1>1, <1>3, FS_EmptySet, FS_CardinalityType

LEMMA ClearedFields ==
    ASSUME NEW t, Shape(t), WellPlaced(t), Distinct(t), Counted(t),
           NEW P \in SUBSET Filled(t), NEW u, u = Cleared(t, P)
    PROVE  /\ Shape(u) /\ WellPlaced(u) /\ Distinct(u) /\ Counted(u)
           /\ SameBuffer(u, t) /\ EndPos(u) = EndPos(t)
           /\ Filled(u) = Filled(t) \ P
           /\ \A i \in 0..EndPos(t) : u.entries[i] = IF i \in P THEN Empty ELSE t.entries[i]
           /\ Held(u) = {t.entries[i].elem : i \in Filled(t) \ P}
<1> DEFINE f == [i \in 0..EndPos(t) |-> IF i \in P THEN Empty ELSE t.entries[i]]
           n == t.size - Cardinality(P)
<1>1. /\ t.entries \in [0..EndPos(t) -> Entry] /\ EndPos(t) \in Nat /\ t.size \in Nat
      /\ P \subseteq 0..(EndPos(t) - 1) /\ EndPos(t) \notin P /\ DOMAIN t.entries = 0..EndPos(t)
  <2>1. t.entries \in [0..EndPos(t) -> Entry] /\ t.size \in Nat
    BY DEF Shape
  <2> QED
    BY <2>1, EntryType
<1>2. Empty \in Entry /\ Empty.dist = -1
  BY DEF Empty, Entry
<1>3. n \in Nat /\ n = Cardinality(Filled(t) \ P)
  <2>1. t.size = Cardinality(Filled(t))
    BY DEF Counted
  <2>2. IsFiniteSet(Filled(t))
    BY FilledFinite
  <2>3. Cardinality(Filled(t) \ P) = Cardinality(Filled(t)) - Cardinality(P)
    BY <2>2, SubsetCount
  <2>4. Cardinality(Filled(t) \ P) \in Nat
    BY <2>2, SubsetCount
  <2> QED
    BY <2>1, <2>3, <2>4
<1>4. u = [t EXCEPT !.entries = f, !.size = n]
  BY <1>1 DEF Cleared
<1>5. f \in [0..EndPos(t) -> Entry] /\ f[EndPos(t)] = t.entries[EndPos(t)]
      /\ \A i \in 0..EndPos(t) : f[i] = IF i \in P THEN Empty ELSE t.entries[i]
  BY <1>1, <1>2
<1> HIDE DEF f, n
<1>6. /\ u.entries = f /\ u.size = n /\ SameBuffer(u, t)
      /\ u = [entries |-> u.entries, slots |-> u.slots, policy |-> u.policy,
              prime |-> u.prime, lookups |-> u.lookups, load |-> u.load, size |-> u.size]
  BY <1>4 DEF Shape, SameBuffer
<1>7. EndPos(u) = EndPos(t)
  BY <1>6 DEF EndPos, SameBuffer
<1>8. Shape(u)
  BY <1>1, <1>3, <1>5, <1>6, <1>7 DEF Shape, SameBuffer
<1>9. Filled(u) = Filled(t) \ P
  BY <1>1, <1>2, <1>5, <1>6, <1>7 DEF Filled, HasValue
<1>10. \A i \in Filled(u) : i \in Filled(t) /\ u.entries[i] = t.entries[i]
  BY <1>1, <1>5, <1>6, <1>9, EntryType
<1>11. Counted(u)
  BY <1>3, <1>6, <1>9 DEF Counted
<1>12. WellPlaced(u)
  BY <1>6, <1>10, HomeSame DEF WellPlaced, SameBuffer
<1>13. Distinct(u)
  BY <1>10 DEF Distinct
<1>14. Held(u) = {t.entries[i].elem : i \in Filled(t) \ P}
  BY <1>9, <1>10 DEF Held
<1> QED
  BY <1>5, <1>6, <1>7, <1>8, <1>9, <1>11, <1>12, <1>13, <1>14

\* A gap of shift slots in front of it, into which the element at it fits.
GapAt(t, it, shift) ==
    /\ TableInv(t, (it - shift)..(it - 1)) /\ it <= EndPos(t)
    /\ ~AtDesired(t.entries[it]) => shift \in 1..t.entries[it].dist
    /\ \A i \in (it - shift)..(it - 1) : ~HasValue(t.entries[i])

\* When the element after the gap is at home, or there is none, the gap hides nothing.
LEMMA GapCloses ==
    ASSUME NEW t, NEW it \in Nat, NEW shift \in Int, GapAt(t, it, shift),
           AtDesired(t.entries[it])
    PROVE  TableInv(t, {})
<1>0. TableInv(t, (it - shift)..(it - 1)) /\ it <= EndPos(t)
  BY DEF GapAt
<1>1. Shape(t) /\ EndPos(t) \in Nat
  BY <1>0, EntryType DEF TableInv
<1>2. it \in 0..EndPos(t) /\ t.entries[it].dist \in Int /\ t.entries[it].dist <= 0
  BY <1>0, <1>1, EntryType DEF AtDesired
<1>3. Ordered(t, {})
  <2> SUFFICES ASSUME NEW i \in Filled(t), NEW m \in 0..t.entries[i].dist
               PROVE  t.entries[i - m].dist >= t.entries[i].dist - m
    BY DEF Ordered
  <2>1. i \in Nat /\ t.entries[i].dist \in Nat /\ m \in Nat /\ i \notin (it - shift)..(it - 1)
    <3>1. i \in 0..(EndPos(t) - 1) /\ t.entries[i].dist >= 0 /\ t.entries[i].dist \in Nat \cup {-1}
      BY <1>1, EntryType
    <3>2. i \notin (it - shift)..(it - 1)
      BY <3>1 DEF GapAt, HasValue
    <3> QED
      BY <3>1, <3>2, <1>1
  <2>2. i - m \notin (it - shift)..(it - 1)
    <3> SUFFICES ASSUME i - m \in (it - shift)..(it - 1) PROVE FALSE
      OBVIOUS
    <3>1. i >= it
      BY <2>1
    <3>2. i - it \in 0..t.entries[i].dist /\ i - (i - it) = it /\ it \notin (it - shift)..(it - 1)
      BY <2>1, <3>1
    <3>3. t.entries[it].dist >= t.entries[i].dist - (i - it)
      BY <3>2, <1>0 DEF TableInv, Ordered
    <3> QED
      BY <2>1, <3>2, <3>3, <1>2
  <2> QED
    BY <2>2, <1>0 DEF TableInv, Ordered
<1> QED
  BY <1>0, <1>3 DEF TableInv

\* The element of slot it is moved by shift slots.
MovedBy(t, it, shift) ==
    [t EXCEPT !.entries =
        [@ EXCEPT ![it - shift] = [t.entries[it] EXCEPT !.dist = @ - shift], ![it] = Empty]]

\* An element moves over the gap, which moves on.
LEMMA GapMoves ==
    ASSUME NEW t, NEW it \in Nat, NEW shift \in Int, GapAt(t, it, shift),
           ~AtDesired(t.entries[it]), NEW e, e = t.entries[it], NEW rest, rest = Smaller(t.entries[it + 1].dist, shift),
           NEW u, u = MovedBy(t, it, shift)
    PROVE  /\ TableInv(u, (it + 1 - rest)..it) /\ Held(u) = Held(t)
           /\ EndPos(u) = EndPos(t) /\ it + 1 <= EndPos(u) /\ rest \in Int
           /\ ~AtDesired(u.entries[it + 1]) => rest \in 1..u.entries[it + 1].dist
           /\ \A i \in (it + 1 - rest)..it : ~HasValue(u.entries[i])
<1> DEFINE dst == it - shift
           moved == [dist |-> e.dist - shift, elem |-> e.elem]
           f == [i \in 0..EndPos(t) |->
                    IF i = it THEN Empty ELSE IF i = dst THEN moved ELSE t.entries[i]]
<1>0. /\ TableInv(t, (it - shift)..(it - 1)) /\ it <= EndPos(t) /\ shift \in 1..e.dist
      /\ \A i \in Filled(t) : i \notin (it - shift)..(it - 1)
  BY DEF GapAt, Filled
<1>1. /\ Shape(t) /\ EndPos(t) \in Nat /\ t.entries \in [0..EndPos(t) -> Entry]
      /\ it \in 0..(EndPos(t) - 1) /\ it \in Filled(t) /\ e.dist \in Nat /\ shift \in 1..e.dist
  <2>1. Shape(t) /\ t.entries \in [0..EndPos(t) -> Entry]
    BY <1>0 DEF TableInv, Shape
  <2>2. it # EndPos(t)
    BY <2>1, EntryType DEF AtDesired
  <2> QED
    BY <1>0, <2>1, <2>2, EntryType DEF AtDesired
<1>2. /\ e.elem \in Pairs /\ KeyOf(e.elem) \in Keys /\ e.dist < t.lookups /\ t.lookups \in Nat
      /\ it - e.dist = Home(t, KeyOf(e.elem)) /\ it - e.dist >= 0
  <2>1. e.elem \in Pairs /\ e.dist < t.lookups /\ it - e.dist = Home(t, KeyOf(e.elem))
    BY <1>0, <1>1 DEF TableInv, WellPlaced
  <2>2. KeyOf(e.elem) \in Keys
    BY <2>1 DEF Pairs, KeyOf
  <2> QED
    BY <1>1, <2>1, <2>2, HomeType, EntryType
<1>n. /\ it \in Int /\ shift \in Int /\ e.dist \in Int /\ EndPos(t) \in Int /\ dst \in Int
      /\ t.lookups \in Int
      /\ 1 <= shift /\ shift <= e.dist /\ it < EndPos(t) /\ dst = it - shift /\ 0 <= dst
      /\ e.dist < t.lookups /\ 0 <= it - e.dist
  <2>1. it \in Int /\ shift \in Int /\ e.dist \in Int /\ EndPos(t) \in Int /\ t.lookups \in Int
    BY <1>1, <1>2
  <2>2. 1 <= shift /\ shift <= e.dist /\ it < EndPos(t) /\ e.dist < t.lookups /\ 0 <= it - e.dist
    BY <1>1, <1>2
  <2> QED
    BY <2>1, <2>2
<1> HIDE DEF dst
<1>3. dst \in 0..(EndPos(t) - 1) /\ dst < it /\ dst \in Nat /\ dst \notin Filled(t)
  <2>1. dst \in 0..(EndPos(t) - 1) /\ dst < it /\ dst \in Nat /\ dst \in (it - shift)..(it - 1)
    BY <1>n
  <2> QED
    BY <2>1, <1>0
<1>4. moved \in Entry /\ Empty \in Entry /\ Empty.dist = -1 /\ moved.dist = e.dist - shift
      /\ moved.elem = e.elem
  <2>1. e.dist - shift \in Nat
    BY <1>n
  <2>2. Empty \in Entry /\ Empty.dist = -1
    BY DEF Entry, Empty
  <2>3. moved \in Entry
    BY <1>2, <2>1 DEF Entry
  <2> QED
    BY <2>2, <2>3
<1>5. u = [t EXCEPT !.entries = f]
  <2>1. e \in Entry /\ e = [dist |-> e.dist, elem |-> e.elem]
    BY <1>1 DEF Entry
  <2>2. [e EXCEPT !.dist = @ - shift] = moved
    BY <2>1
  <2>3. [t.entries EXCEPT ![dst] = moved, ![it] = Empty] = f
    BY <1>1, <1>3
  <2>4. u = [t EXCEPT !.entries = [t.entries EXCEPT ![dst] = moved, ![it] = Empty]]
    BY <2>2 DEF Shape, dst, MovedBy
  <2> QED
    BY <2>3, <2>4
<1> HIDE DEF moved
<1>6. /\ f \in [0..EndPos(t) -> Entry] /\ f[it] = Empty /\ f[dst] = moved
      /\ \A i \in 0..EndPos(t) : i # it /\ i # dst => f[i] = t.entries[i]
  <2>1. it \in 0..EndPos(t) /\ dst \in 0..EndPos(t) /\ it # dst
    BY <1>n
  <2> QED
    BY <1>1, <1>4, <2>1
<1> HIDE DEF f
<1>7. u.entries = f /\ u.size = t.size /\ SameBuffer(u, t)
  <2>1. t = [entries |-> t.entries, slots |-> t.slots, policy |-> t.policy, prime |-> t.prime,
             lookups |-> t.lookups, load |-> t.load, size |-> t.size]
    BY <1>0 DEF TableInv, Shape
  <2> QED
    BY <1>5, <2>1 DEF SameBuffer
<1>8. EndPos(u) = EndPos(t)
  BY <1>7 DEF EndPos, SameBuffer
<1>9. Shape(u)
  <2>1. /\ t.slots \in Nat /\ t.policy \in Policies /\ t.prime \in 0..(t.slots + 1)
        /\ t.lookups \in Nat \ {0} /\ t.load \in AllLoads /\ t.size \in Nat
        /\ t.entries[EndPos(t)] = SpecialEnd
        /\ t = [entries |-> t.entries, slots |-> t.slots, policy |-> t.policy, prime |-> t.prime,
                lookups |-> t.lookups, load |-> t.load, size |-> t.size]
    BY <1>0 DEF TableInv, Shape
  <2>2. EndPos(t) \in 0..EndPos(t) /\ EndPos(t) # it /\ EndPos(t) # dst
    BY <1>1, <1>3
  <2>3. f[EndPos(t)] = SpecialEnd
    BY <2>1, <2>2, <1>6
  <2>4. u = [entries |-> u.entries, slots |-> u.slots, policy |-> u.policy, prime |-> u.prime,
             lookups |-> u.lookups, load |-> u.load, size |-> u.size]
    BY <1>5, <2>1
  <2> QED
    BY <2>1, <2>3, <2>4, <1>6, <1>7, <1>8 DEF Shape, SameBuffer
<1>10. /\ u.entries[it].dist = -1 /\ u.entries[dst].dist = e.dist - shift
       /\ u.entries[dst].elem = e.elem
       /\ \A i \in 0..EndPos(t) : i # it /\ i # dst => u.entries[i] = t.entries[i]
  BY <1>4, <1>6, <1>7
<1>11. \A k \in Keys : Home(u, k) = Home(t, k)
  BY <1>7, HomeSame DEF SameBuffer
<1>12. Filled(u) = (Filled(t) \ {it}) \cup {dst}
  <2>1. Filled(u) \subseteq 0..(EndPos(t) - 1) /\ Filled(t) \subseteq 0..(EndPos(t) - 1)
    BY <1>1, <1>8, <1>9, EntryType
  <2>2. \A i \in 0..(EndPos(t) - 1) : (i \in Filled(u) <=> u.entries[i].dist >= 0)
                                   /\ (i \in Filled(t) <=> t.entries[i].dist >= 0)
    BY <1>1, <1>8, <1>9, EntryType
  <2>3. it \notin Filled(u)
    BY <2>2, <1>1, <1>10
  <2>5. dst \in Filled(u) /\ dst # it
    <3>1. u.entries[dst].dist >= 0
      BY <1>1, <1>10
    <3> QED
      BY <2>2, <3>1, <1>3
  <2>4. \A i \in 0..(EndPos(t) - 1) : i # it /\ i # dst => (i \in Filled(u) <=> i \in Filled(t))
    <3> SUFFICES ASSUME NEW i \in 0..(EndPos(t) - 1), i # it, i # dst
                 PROVE  i \in Filled(u) <=> i \in Filled(t)
      OBVIOUS
    <3>1. i \in 0..EndPos(t)
      BY <1>n
    <3>2. u.entries[i] = t.entries[i]
      BY <3>1, <1>10
    <3> QED
      BY <3>2, <2>2
  <2> QED
    BY <2>1, <2>3, <2>4, <2>5
<1>13. ASSUME NEW i \in Filled(u), i # dst
       PROVE  i \in Filled(t) /\ i # it /\ u.entries[i] = t.entries[i]
  <2>1. i \in Filled(t) /\ i # it /\ i \in 0..EndPos(t)
    BY <1>12, <1>13, <1>1, EntryType
  <2> QED
    BY <2>1, <1>10, <1>13
<1>14. WellPlaced(u)
  <2> SUFFICES ASSUME NEW i \in Filled(u)
               PROVE  /\ u.entries[i].elem \in Pairs
                      /\ u.entries[i].dist < u.lookups
                      /\ i - u.entries[i].dist = Home(u, KeyOf(u.entries[i].elem))
    BY DEF WellPlaced
  <2>1. CASE i = dst
    <3>1. e.dist - shift < t.lookups /\ dst - (e.dist - shift) = it - e.dist
      BY <1>n
    <3>2. u.lookups = t.lookups /\ Home(u, KeyOf(e.elem)) = Home(t, KeyOf(e.elem))
      BY <1>2, <1>7, <1>11 DEF SameBuffer
    <3> QED
      BY <2>1, <3>1, <3>2, <1>2, <1>10
  <2>2. CASE i # dst
    <3>1. i \in Filled(t) /\ u.entries[i] = t.entries[i]
      BY <2>2, <1>13
    <3>2. /\ t.entries[i].elem \in Pairs /\ t.entries[i].dist < t.lookups
          /\ i - t.entries[i].dist = Home(t, KeyOf(t.entries[i].elem))
      BY <3>1, <1>0 DEF TableInv, WellPlaced
    <3>3. KeyOf(t.entries[i].elem) \in Keys
      BY <3>2 DEF Pairs, KeyOf
    <3> QED
      BY <3>1, <3>2, <3>3, <1>7, <1>11 DEF SameBuffer
  <2> QED
    BY <2>1, <2>2
<1>15. Distinct(u)
  <2> SUFFICES ASSUME NEW i \in Filled(u), NEW j \in Filled(u),
                      KeyOf(u.entries[i].elem) = KeyOf(u.entries[j].elem)
               PROVE  i = j
    BY DEF Distinct
  <2>1. CASE i # dst /\ j # dst
    BY <2>1, <1>13, <1>0 DEF TableInv, Distinct
  <2>2. CASE i = dst /\ j # dst
    BY <2>2, <1>1, <1>10, <1>13, <1>0 DEF TableInv, Distinct
  <2>3. CASE i # dst /\ j = dst
    BY <2>3, <1>1, <1>10, <1>13, <1>0 DEF TableInv, Distinct
  <2> QED
    BY <2>1, <2>2, <2>3
<1>16. Counted(u)
  <2>1. IsFiniteSet(Filled(t)) /\ it \in Filled(t) /\ dst \notin Filled(t)
    BY <1>1, <1>3, FilledFinite
  <2>2. IsFiniteSet(Filled(t) \ {it}) /\ Cardinality(Filled(t) \ {it}) = Cardinality(Filled(t)) - 1
    BY <2>1, FS_RemoveElement
  <2>3. Cardinality(Filled(u)) = Cardinality(Filled(t)) - 1 + 1
    BY <2>1, <2>2, <1>12, FS_AddElement
  <2> QED
    BY <2>1, <2>3, <1>7, <1>0, FS_CardinalityType DEF Counted, TableInv
<1>17. Held(u) = Held(t)
  <2>1. ASSUME NEW i \in Filled(u) PROVE u.entries[i].elem \in Held(t)
    <3>1. CASE i = dst
      BY <3>1, <1>1, <1>10 DEF Held
    <3>2. CASE i # dst
      BY <3>2, <1>13 DEF Held
    <3> QED
      BY <3>1, <3>2
  <2>2. ASSUME NEW i \in Filled(t) PROVE t.entries[i].elem \in Held(u)
    <3>1. CASE i = it
      <4>1. dst \in Filled(u)
        BY <1>12
      <4> QED
        BY <3>1, <4>1, <1>10 DEF Held
    <3>2. CASE i # it
      <4>1. i \in Filled(u) /\ i # dst
        BY <3>2, <1>3, <1>12
      <4> QED
        BY <4>1, <1>13 DEF Held
    <3> QED
      BY <3>1, <3>2
  <2> QED
    BY <2>1, <2>2 DEF Held
<1> DEFINE next == t.entries[it + 1].dist
<1>18. /\ it + 1 \in 0..EndPos(t) /\ next \in Int /\ u.entries[it + 1].dist = next
       /\ rest \in Int /\ rest <= shift /\ rest <= next
       /\ rest = next \/ rest = shift
  <2>1. it + 1 \in 0..EndPos(t) /\ it + 1 # it /\ it + 1 # dst
    BY <1>n
  <2>2. next \in Int /\ u.entries[it + 1].dist = next
    BY <2>1, <1>1, <1>10, EntryType
  <2> QED
    BY <2>1, <2>2 DEF Smaller
<1>19. \A i \in (it + 1 - rest)..it : ~HasValue(u.entries[i])
  <2> SUFFICES ASSUME NEW i \in (it + 1 - rest)..it PROVE ~HasValue(u.entries[i])
    OBVIOUS
  <2>1. CASE i = it
    BY <2>1, <1>10 DEF HasValue
  <2>2. CASE i # it
    <3>1. i \in Int /\ it + 1 - rest <= i /\ i < it
      BY <2>2, <1>n, <1>18
    <3>2. i \in (it - shift)..(it - 1) /\ i \in 0..EndPos(t) /\ i # dst
      BY <3>1, <1>n, <1>18
    <3>3. ~HasValue(t.entries[i])
      BY <3>2 DEF GapAt
    <3> QED
      BY <2>2, <3>2, <3>3, <1>10
  <2> QED
    BY <2>1, <2>2
<1>20. Ordered(u, (it + 1 - rest)..it)
  <2> HIDE DEF next
  <2> SUFFICES ASSUME NEW i \in Filled(u), NEW m \in 0..u.entries[i].dist,
                      i - m \notin (it + 1 - rest)..it
               PROVE  u.entries[i - m].dist >= u.entries[i].dist - m
    BY DEF Ordered
  <2>1. /\ i \in 0..(EndPos(t) - 1) /\ u.entries[i].dist \in Nat /\ m \in Nat
        /\ m <= u.entries[i].dist /\ i - u.entries[i].dist >= 0 /\ i - m \in 0..EndPos(t)
    <3>1. i \in 0..(EndPos(t) - 1) /\ u.entries[i].dist \in Nat
      BY <1>8, <1>9, EntryType
    <3>2. u.entries[i].elem \in Pairs /\ i - u.entries[i].dist = Home(u, KeyOf(u.entries[i].elem))
      BY <1>14 DEF WellPlaced
    <3>3. Home(u, KeyOf(u.entries[i].elem)) >= 0
      BY <3>2, <1>9, HomeType, EntryType DEF Pairs, KeyOf
    <3>4. i - u.entries[i].dist >= 0
      BY <3>2, <3>3
    <3> QED
      BY SMTT(60), <3>1, <3>4, <1>n
  <2>n. i \in Int /\ m \in Int /\ u.entries[i].dist \in Int /\ m <= u.entries[i].dist /\ 0 <= m
    BY <2>1
  <2>2. CASE i = dst
    <3>1. /\ m + shift \in 0..e.dist /\ it - (m + shift) = dst - m
          /\ e.dist - (m + shift) = u.entries[dst].dist - m
      BY SMTT(60), <2>n, <2>2, <1>n, <1>10
    <3>2. CASE m = 0
      BY <3>2, <2>2, <2>1
    <3>3. CASE m # 0
      <4>1. it - (m + shift) \notin (it - shift)..(it - 1)
        BY <3>3, <2>1
      <4>2. t.entries[dst - m].dist >= e.dist - (m + shift)
        BY <3>1, <4>1, <1>0, <1>1 DEF TableInv, Ordered
      <4>3. dst - m # dst /\ dst - m # it /\ dst - m \in 0..EndPos(t)
        BY <3>3, <2>1, <2>2, <1>3
      <4> QED
        BY <3>1, <4>2, <4>3, <2>2, <1>10
    <3> QED
      BY <3>2, <3>3
  <2>3. CASE i # dst
    <3>1. i \in Filled(t) /\ i # it /\ u.entries[i] = t.entries[i] /\ i \notin (it - shift)..(it - 1)
      BY <2>3, <1>0, <1>13
    <3>2. \A n \in 0..t.entries[i].dist : i - n \notin (it - shift)..(it - 1)
                                    => t.entries[i - n].dist >= t.entries[i].dist - n
      BY <3>1, <1>0 DEF TableInv, Ordered
    <3>3. CASE i < it
      <4>1. i - m \notin (it - shift)..(it - 1) /\ i - m # it /\ i - m # dst
        <5>1. i < it - shift
          BY <3>1, <3>3, <2>n, <1>n
        <5> QED
          BY <5>1, <2>n, <1>n
      <4> QED
        BY <3>1, <3>2, <4>1, <2>1, <1>10
    <3>4. CASE i > it
      <4>0. t.entries[i].dist = u.entries[i].dist
        BY <3>1
      <4>1. CASE i - m > it
        <5>1. i - m \notin (it - shift)..(it - 1) /\ i - m # it /\ i - m # dst
          BY <4>1, <2>n, <1>n
        <5> QED
          BY <3>1, <3>2, <5>1, <2>1, <1>10
      <4>2. CASE i - m <= it
        \* The probe for i passes it + 1 and it.
        <5>1. /\ i - (it + 1) \in 0..t.entries[i].dist /\ i - (i - (it + 1)) = it + 1
              /\ it + 1 \notin (it - shift)..(it - 1)
          <6>1. PICK d : d = t.entries[i].dist
            OBVIOUS
          <6>2. d \in Int /\ i \in Int /\ m \in Int /\ it \in Int /\ shift \in Int /\ m <= d
            BY <6>1, <4>0, <2>n, <1>n
          <6>3. i - (it + 1) \in 0..d /\ i - (i - (it + 1)) = it + 1
            BY <6>2, <4>2, <3>4
          <6>4. it + 1 \notin (it - shift)..(it - 1)
            BY <6>2
          <6> QED
            BY <6>1, <6>3, <6>4
        <5>2. next >= t.entries[i].dist - (i - (it + 1))
          BY <5>1, <3>2 DEF next
        <5>3. next >= 1 /\ rest >= 1 /\ i - m >= it + 1 - next
          BY SMTT(60), <5>2, <4>0, <4>2, <3>4, <2>n, <1>n, <1>18
        <5>4. i - m < it + 1 - rest /\ rest = shift
          BY SMTT(60), <5>3, <4>2, <2>n, <1>18, <1>n
        <5>5. i - m <= dst
          BY <5>4, <2>n, <1>n, <1>18
        <5>6. CASE i - m = dst
          <6>1. /\ i - it \in 0..t.entries[i].dist /\ i - (i - it) = it
                /\ it \notin (it - shift)..(it - 1)
            BY <4>0, <4>2, <3>4, <2>n, <1>n
          <6>2. e.dist >= t.entries[i].dist - (i - it)
            BY <6>1, <3>2
          <6>3. m = i - it + shift
            BY <5>6, <2>n, <1>n
          <6> QED
            BY SMTT(60), <6>2, <6>3, <5>6, <4>0, <2>n, <1>n, <1>10
        <5>7. CASE i - m < dst
          <6>1. i - m \notin (it - shift)..(it - 1) /\ i - m # it /\ i - m # dst
            BY <5>7, <2>n, <1>n
          <6> QED
            BY <3>1, <3>2, <6>1, <2>1, <1>10
        <5> QED
          BY <5>5, <5>6, <5>7, <2>n, <1>n
      <4> QED
        BY <4>1, <4>2, <2>1, <1>1
    <3> QED
      BY <3>1, <3>3, <3>4, <2>1, <1>1
  <2> QED
    BY <2>2, <2>3
<1>21. TableInv(u, (it + 1 - rest)..it)
  BY <1>9, <1>14, <1>15, <1>16, <1>20 DEF TableInv
<1>22. EndPos(u) = EndPos(t) /\ it + 1 <= EndPos(u) /\ rest \in Int
  BY <1>8, <1>18, <1>n
<1>23. ~AtDesired(u.entries[it + 1]) => rest \in 1..u.entries[it + 1].dist
  BY <1>18, <1>n DEF AtDesired
<1> QED
  BY <1>17, <1>19, <1>21, <1>22, <1>23

\* An element lies within the buffer, as does its home.
LEMMA ElementType ==
    ASSUME NEW t, Shape(t), WellPlaced(t), NEW i \in Filled(t)
    PROVE  /\ i \in Int /\ 0 <= i /\ i < EndPos(t) /\ EndPos(t) \in Int
           /\ t.entries[i].dist \in Int /\ 0 <= t.entries[i].dist
           /\ 0 <= i - t.entries[i].dist
           /\ t.entries[i].elem \in Pairs /\ KeyOf(t.entries[i].elem) \in Keys
<1>1. /\ t.entries[i].elem \in Pairs /\ i - t.entries[i].dist = Home(t, KeyOf(t.entries[i].elem))
  BY DEF WellPlaced
<1>2. KeyOf(t.entries[i].elem) \in Keys
  BY <1>1 DEF Pairs, KeyOf
<1>3. Home(t, KeyOf(t.entries[i].elem)) \in 0..t.slots /\ t.slots \in Nat
  BY <1>2, HomeType DEF Shape
<1>4. i \in 0..(EndPos(t) - 1) /\ EndPos(t) \in Nat /\ t.entries[i].dist \in Int /\ 0 <= t.entries[i].dist
  BY EntryType
<1> QED
  BY <1>1, <1>2, <1>3, <1>4

\* The elements that are not at P reach back over P in the hole alone.
ReachOver(t, P, hole) ==
    \A i \in Filled(t) \ P : \A m \in 0..t.entries[i].dist : i - m \in P => i - m \in hole

\* The positions P are emptied.  No probe stops early, unless in the hole, when the
\* elements that are left reach back over P in the hole alone.
LEMMA ClearedInv ==
    ASSUME NEW t, TableInv(t, {}), NEW P \in SUBSET Filled(t), NEW hole,
           ReachOver(t, P, hole), NEW u, u = Cleared(t, P)
    PROVE  /\ TableInv(u, hole) /\ EndPos(u) = EndPos(t) /\ SameBuffer(u, t)
           /\ Filled(u) = Filled(t) \ P
           /\ \A i \in 0..EndPos(t) : u.entries[i] = IF i \in P THEN Empty ELSE t.entries[i]
           /\ Held(u) = {t.entries[i].elem : i \in Filled(t) \ P}
<1>1. Shape(t) /\ WellPlaced(t) /\ Distinct(t) /\ Counted(t) /\ Ordered(t, {})
  BY DEF TableInv
<1>2. /\ Shape(u) /\ WellPlaced(u) /\ Distinct(u) /\ Counted(u)
      /\ SameBuffer(u, t) /\ EndPos(u) = EndPos(t) /\ Filled(u) = Filled(t) \ P
      /\ \A i \in 0..EndPos(t) : u.entries[i] = IF i \in P THEN Empty ELSE t.entries[i]
      /\ Held(u) = {t.entries[i].elem : i \in Filled(t) \ P}
  BY <1>1, ClearedFields
<1>3. Ordered(u, hole)
  <2> SUFFICES ASSUME NEW i \in Filled(u), NEW m \in 0..u.entries[i].dist, i - m \notin hole
               PROVE  u.entries[i - m].dist >= u.entries[i].dist - m
    BY DEF Ordered
  <2>1. i \in Filled(t) /\ i \notin P
    BY <1>2
  <2>2. /\ i \in Int /\ 0 <= i /\ i < EndPos(t) /\ EndPos(t) \in Int
        /\ t.entries[i].dist \in Int /\ 0 <= i - t.entries[i].dist
    BY <1>1, <2>1, ElementType
  <2>3. u.entries[i] = t.entries[i]
    <3>1. i \in 0..EndPos(t)
      BY <2>2
    <3> QED
      BY <3>1, <2>1, <1>2
  <2>4. m \in 0..t.entries[i].dist /\ i - m \notin P
    BY <2>1, <2>3 DEF ReachOver
  <2>5. i - m \in 0..EndPos(t)
    BY <2>2, <2>4
  <2>6. t.entries[i - m].dist >= t.entries[i].dist - m
    BY <1>1, <2>1, <2>4 DEF Ordered
  <2>7. u.entries[i - m] = t.entries[i - m]
    BY <2>4, <2>5, <1>2
  <2> QED
    BY <2>3, <2>6, <2>7
<1> QED
  BY <1>2, <1>3 DEF TableInv

\* A range of slots is emptied: what is left open is what the element after it may need.
LEMMA RangeCleared ==
    ASSUME NEW t, TableInv(t, {}), NEW first \in Nat, NEW last \in Filled(t), first < last,
           NEW shift, shift = Smaller(t.entries[last].dist, last - first),
           NEW u, u = Cleared(t, Filled(t) \cap first..(last - 1))
    PROVE  /\ TableInv(u, (last - shift)..(last - 1)) /\ EndPos(u) = EndPos(t)
           /\ shift \in Int /\ last <= EndPos(u)
           /\ ~AtDesired(u.entries[last]) => shift \in 1..u.entries[last].dist
           /\ \A i \in (last - shift)..(last - 1) : ~HasValue(u.entries[i])
           /\ Held(u) \subseteq Held(t)
<1> DEFINE P == Filled(t) \cap first..(last - 1)
           d == t.entries[last].dist
<1>1. Shape(t) /\ WellPlaced(t) /\ Ordered(t, {})
  BY DEF TableInv
<1>2. /\ last \in Int /\ 0 <= last /\ last < EndPos(t) /\ EndPos(t) \in Int
      /\ d \in Int /\ 0 <= d /\ first \in Int /\ 0 <= first
  BY <1>1, ElementType
<1>3. shift \in Int /\ shift <= last - first /\ shift <= d /\ 0 <= shift
      /\ (shift = d \/ shift = last - first)
  BY <1>2 DEF Smaller
<1>4. ASSUME NEW i \in Filled(t) \ P, NEW m \in 0..t.entries[i].dist, i - m \in P
      PROVE  i - m \in (last - shift)..(last - 1)
  <2>1. i \in Int /\ t.entries[i].dist \in Int /\ m \in Int /\ i - m \in first..(last - 1)
    BY <1>1, <1>4, ElementType
  <2>2. i >= last
    BY <2>1, <1>2, <1>4
  <2>3. i - last \in 0..t.entries[i].dist /\ i - (i - last) = last
    BY <2>1, <2>2, <1>2
  <2>4. d >= t.entries[i].dist - (i - last)
    BY <2>3, <1>1 DEF Ordered
  <2> HIDE DEF d
  <2>5. i - m >= last - d
    BY <2>1, <2>4, <1>2
  <2> QED
    BY <2>1, <2>5, <1>2, <1>3
<1>5. /\ TableInv(u, (last - shift)..(last - 1)) /\ EndPos(u) = EndPos(t)
      /\ \A i \in 0..EndPos(t) : u.entries[i] = IF i \in P THEN Empty ELSE t.entries[i]
      /\ Filled(u) = Filled(t) \ P
      /\ Held(u) = {t.entries[i].elem : i \in Filled(t) \ P}
  <2>1. P \in SUBSET Filled(t) /\ u = Cleared(t, P)
    OBVIOUS
  <2>0. PICK open : open = (last - shift)..(last - 1)
    OBVIOUS
  <2>2. ReachOver(t, P, open)
    BY <1>4, <2>0 DEF ReachOver
  <2> HIDE DEF P
  <2>3. TableInv(u, open) /\ EndPos(u) = EndPos(t) /\ Filled(u) = Filled(t) \ P
    BY <2>1, <2>2, ClearedInv
  <2>4. \A i \in 0..EndPos(t) : u.entries[i] = IF i \in P THEN Empty ELSE t.entries[i]
    BY <2>1, <2>2, ClearedInv
  <2>5. Held(u) = {t.entries[i].elem : i \in Filled(t) \ P}
    BY <2>1, <2>2, ClearedInv
  <2> QED
    BY <2>0, <2>3, <2>4, <2>5
<1>6. u.entries[last] = t.entries[last]
  <2>1. last \in 0..EndPos(t) /\ last \notin P
    BY <1>2
  <2> HIDE DEF P
  <2> QED
    BY <2>1, <1>5
<1>7. ASSUME NEW i \in (last - shift)..(last - 1) PROVE ~HasValue(u.entries[i])
  <2>1. i \in first..(last - 1) /\ i \in 0..(EndPos(t) - 1) /\ i \in Int
    BY <1>2, <1>3
  <2>2. i \notin Filled(u)
    BY <2>1, <1>5
  <2> QED
    BY <2>1, <2>2, <1>5 DEF Filled
<1>8. Held(u) \subseteq Held(t)
  <2> HIDE DEF P
  <2> QED
    BY <1>5 DEF Held
<1>9. last <= EndPos(u) /\ (~AtDesired(u.entries[last]) => shift \in 1..u.entries[last].dist)
  <2> HIDE DEF P
  <2>1. EndPos(u) = EndPos(t)
    BY <1>5
  <2> QED
    BY <2>1, <1>2, <1>3, <1>6 DEF AtDesired
<1> HIDE DEF P
<1> QED
  BY <1>3, <1>5, <1>7, <1>8, <1>9

\* Everything from a slot on is emptied.
LEMMA TailCleared ==
    ASSUME NEW t, TableInv(t, {}), NEW first \in Nat,
           NEW u, u = Cleared(t, Filled(t) \cap first..(EndPos(t) - 1))
    PROVE  TableInv(u, {}) /\ Held(u) \subseteq Held(t)
<1> DEFINE P == Filled(t) \cap first..(EndPos(t) - 1)
<1>1. Shape(t) /\ WellPlaced(t)
  BY DEF TableInv
<1>2. ASSUME NEW i \in Filled(t) \ P, NEW m \in 0..t.entries[i].dist PROVE i - m \notin P
  <2>1. i \in Int /\ t.entries[i].dist \in Int /\ m \in Int /\ 0 <= m /\ i < EndPos(t) /\ EndPos(t) \in Int
    BY <1>1, <1>2, ElementType
  <2>2. i < first
    BY <2>1, <1>2
  <2> QED
    BY <2>1, <2>2
<1>3. P \in SUBSET Filled(t) /\ u = Cleared(t, P)
  OBVIOUS
<1> HIDE DEF P
<1>4. TableInv(u, {}) /\ Held(u) = {t.entries[i].elem : i \in Filled(t) \ P}
  <2>1. ReachOver(t, P, {})
    BY <1>2 DEF ReachOver
  <2> QED
    BY <2>1, <1>3, ClearedInv
<1> QED
  BY <1>4 DEF Held

\* One slot is emptied.
LEMMA SlotCleared ==
    ASSUME NEW t, TableInv(t, {}), NEW pos \in Filled(t), NEW u, u = Cleared(t, {pos})
    PROVE  /\ TableInv(u, pos..pos) /\ EndPos(u) = EndPos(t) /\ pos + 1 <= EndPos(u)
           /\ ~AtDesired(u.entries[pos + 1]) => 1 \in 1..u.entries[pos + 1].dist
           /\ ~HasValue(u.entries[pos])
           /\ Held(u) = Held(t) \ {t.entries[pos].elem}
<1>1. Shape(t) /\ WellPlaced(t) /\ Distinct(t)
  BY DEF TableInv
<1>2. pos \in Int /\ 0 <= pos /\ pos < EndPos(t) /\ EndPos(t) \in Int
  BY <1>1, ElementType
<1>3. {pos} \in SUBSET Filled(t) /\ \A i : i \in {pos} => i \in pos..pos
  BY <1>2
<1>4. /\ TableInv(u, pos..pos) /\ EndPos(u) = EndPos(t) /\ Filled(u) = Filled(t) \ {pos}
      /\ \A i \in 0..EndPos(t) : u.entries[i] = IF i \in {pos} THEN Empty ELSE t.entries[i]
      /\ Held(u) = {t.entries[i].elem : i \in Filled(t) \ {pos}}
  <2>0. PICK open : open = pos..pos
    OBVIOUS
  <2>1. ReachOver(t, {pos}, open)
    BY <1>3, <2>0 DEF ReachOver
  <2>2. TableInv(u, open) /\ EndPos(u) = EndPos(t) /\ Filled(u) = Filled(t) \ {pos}
    BY <1>3, <2>1, ClearedInv
  <2>3. \A i \in 0..EndPos(t) : u.entries[i] = IF i \in {pos} THEN Empty ELSE t.entries[i]
    BY <1>3, <2>1, ClearedInv
  <2>4. Held(u) = {t.entries[i].elem : i \in Filled(t) \ {pos}}
    BY <1>3, <2>1, ClearedInv
  <2> QED
    BY <2>0, <2>2, <2>3, <2>4
<1>5. ~HasValue(u.entries[pos])
  BY <1>2, <1>4 DEF Empty, HasValue
<1>6. pos + 1 <= EndPos(u) /\ (~AtDesired(u.entries[pos + 1]) => 1 \in 1..u.entries[pos + 1].dist)
  <2>1. pos + 1 \in 0..EndPos(u) /\ Shape(u)
    BY <1>2, <1>4 DEF TableInv
  <2>2. u.entries[pos + 1].dist \in Int
    BY <2>1, EntryType
  <2> QED
    BY <2>1, <2>2, <1>2, <1>4 DEF AtDesired
<1>7. Held(u) = Held(t) \ {t.entries[pos].elem}
  <2>1. \A i \in Filled(t) : i # pos => t.entries[i].elem # t.entries[pos].elem
    BY <1>1 DEF Distinct
  <2>2. Held(u) \subseteq Held(t) \ {t.entries[pos].elem}
    BY <2>1, <1>4 DEF Held
  <2>3. Held(t) \ {t.entries[pos].elem} \subseteq Held(u)
    BY <1>4 DEF Held
  <2> QED
    BY <2>2, <2>3
<1> QED
  BY <1>4, <1>5, <1>6, <1>7

\* All slots are emptied.
LEMMA AllCleared ==
    ASSUME NEW t, TableInv(t, {}), NEW u, u = clear(t)
    PROVE  TableInv(u, {}) /\ Filled(u) = {} /\ Held(u) = {} /\ u.size = 0
<1>1. /\ TableInv(u, {}) /\ Filled(u) = Filled(t) \ Filled(t)
      /\ Held(u) = {t.entries[i].elem : i \in Filled(t) \ Filled(t)}
  <2>1. u = Cleared(t, Filled(t)) /\ Filled(t) \in SUBSET Filled(t) /\ ReachOver(t, Filled(t), {})
    BY DEF clear, ReachOver
  <2> QED
    BY <2>1, ClearedInv
<1>2. u.size = 0
  BY <1>1, FS_EmptySet DEF TableInv, Counted
<1> QED
  BY <1>1, <1>2

-----------------------------------------------------------------------------
(* Values and loads.                                                       *)

\* elem is written to slot pos.
WithElem(t, pos, elem) == [t EXCEPT !.entries[pos].elem = elem]

LEMMA ElemFields ==
    ASSUME NEW t, Shape(t), NEW pos \in Filled(t), NEW w \in Pairs,
           NEW u, u = WithElem(t, pos, w)
    PROVE  /\ Shape(u) /\ SameBuffer(u, t) /\ u.size = t.size /\ EndPos(u) = EndPos(t)
           /\ Filled(u) = Filled(t)
           /\ \A i \in 0..EndPos(t) : u.entries[i].dist = t.entries[i].dist
           /\ \A i \in Filled(t) : i # pos => u.entries[i] = t.entries[i]
           /\ u.entries[pos].elem = w
<1>1. /\ pos \in 0..(EndPos(t) - 1) /\ pos \in 0..EndPos(t) /\ t.entries[pos].dist \in Nat
      /\ t.size \in Nat /\ t.entries \in [0..EndPos(t) -> Entry]
  <2>1. t.size \in Nat /\ t.entries \in [0..EndPos(t) -> Entry]
    BY DEF Shape
  <2> QED
    BY <2>1, EntryType
<1>2. [t.entries[pos] EXCEPT !.elem = w] = [dist |-> t.entries[pos].dist, elem |-> w]
  <2>1. t.entries[pos] \in Entry
    BY <1>1
  <2> QED
    BY <2>1 DEF Entry
<1>3. PICK d, n : d = t.entries[pos].dist /\ n = t.size
  OBVIOUS
<1>4. u = WithEntry(t, pos, d, w, n)
  BY <1>2, <1>3 DEF Shape, WithEntry, WithElem
<1>5. d \in Nat /\ n \in Nat
  BY <1>1, <1>3
<1>6. /\ Shape(u) /\ SameBuffer(u, t) /\ u.size = n /\ EndPos(u) = EndPos(t)
      /\ Filled(u) = Filled(t) \cup {pos}
      /\ u.entries[pos].dist = d /\ u.entries[pos].elem = w
      /\ \A i \in 0..EndPos(t) : i # pos => u.entries[i] = t.entries[i]
  <2>1. pos \in 0..(EndPos(t) - 1)
    BY <1>1
  <2>2. PlacedAt(t, pos, d, w, n, u)
    BY <2>1, <1>4, <1>5, PlaceFields
  <2> QED
    BY <2>2 DEF PlacedAt
<1>7. \A i \in Filled(t) : i \in 0..EndPos(t)
  BY EntryType
<1> QED
  BY <1>3, <1>6, <1>7

\* A value is replaced under its key.
LEMMA ValueSetInv ==
    ASSUME NEW t, TableInv(t, {}), NEW pos \in Filled(t), NEW w \in Pairs,
           KeyOf(w) = KeyOf(t.entries[pos].elem), NEW u, u = WithElem(t, pos, w)
    PROVE  /\ TableInv(u, {})
           /\ Held(u) = {q \in Held(t) : KeyOf(q) # KeyOf(w)} \cup {w}
<1>1. Shape(t) /\ WellPlaced(t) /\ Distinct(t) /\ Ordered(t, {}) /\ Counted(t)
  BY DEF TableInv
<1>2. /\ Shape(u) /\ SameBuffer(u, t) /\ u.size = t.size /\ EndPos(u) = EndPos(t)
      /\ Filled(u) = Filled(t)
      /\ \A i \in 0..EndPos(t) : u.entries[i].dist = t.entries[i].dist
      /\ \A i \in Filled(t) : i # pos => u.entries[i] = t.entries[i]
      /\ u.entries[pos].elem = w
  BY <1>1, ElemFields
<1>3. \A i \in Filled(t) :
         /\ u.entries[i].dist = t.entries[i].dist /\ u.entries[i].elem \in Pairs
         /\ KeyOf(u.entries[i].elem) = KeyOf(t.entries[i].elem)
  <2>1. \A i \in Filled(t) : i \in 0..EndPos(t) /\ t.entries[i].elem \in Pairs
    BY <1>1, EntryType DEF WellPlaced
  <2> QED
    BY <2>1, <1>2
<1>h. \A k : Home(u, k) = Home(t, k)
  BY <1>2, HomeSame DEF SameBuffer
<1>4. WellPlaced(u)
  BY <1>1, <1>2, <1>3, <1>h DEF WellPlaced, SameBuffer
<1>5. Distinct(u)
  BY <1>1, <1>2, <1>3 DEF Distinct
<1>6. Ordered(u, {})
  <2> SUFFICES ASSUME NEW i \in Filled(u), NEW m \in 0..u.entries[i].dist
               PROVE  u.entries[i - m].dist >= u.entries[i].dist - m
    BY DEF Ordered
  <2>1. i \in Filled(t) /\ u.entries[i].dist = t.entries[i].dist
    BY <1>2, <1>3
  <2>2. /\ i \in Int /\ i < EndPos(t) /\ EndPos(t) \in Int
        /\ t.entries[i].dist \in Int /\ 0 <= i - t.entries[i].dist
    BY <1>1, <2>1, ElementType
  <2>3. i - m \in 0..EndPos(t)
    BY <2>1, <2>2
  <2>4. t.entries[i - m].dist >= t.entries[i].dist - m
    BY <2>1, <1>1 DEF Ordered
  <2> QED
    BY <2>1, <2>3, <2>4, <1>2
<1>7. Held(u) = {q \in Held(t) : KeyOf(q) # KeyOf(w)} \cup {w}
  <2>1. ASSUME NEW i \in Filled(t), i # pos
        PROVE  u.entries[i] = t.entries[i] /\ KeyOf(t.entries[i].elem) # KeyOf(w)
    BY <2>1, <1>1, <1>2 DEF Distinct
  <2>2. Held(u) \subseteq {q \in Held(t) : KeyOf(q) # KeyOf(w)} \cup {w}
    BY <2>1, <1>2 DEF Held
  <2>3. {q \in Held(t) : KeyOf(q) # KeyOf(w)} \cup {w} \subseteq Held(u)
    BY <2>1, <1>2 DEF Held
  <2> QED
    BY <2>2, <2>3
<1> QED
  BY <1>1, <1>2, <1>4, <1>5, <1>6, <1>7 DEF TableInv, Counted

\* The maximal load is a number the lookups do not depend on.
LEMMA LoadSetInv ==
    ASSUME NEW t, NEW hole, TableInv(t, hole), NEW load \in AllLoads, NEW u,
           u = [t EXCEPT !.load = load]
    PROVE  TableInv(u, hole) /\ Filled(u) = Filled(t) /\ Held(u) = Held(t)
<1>1. /\ u.entries = t.entries /\ u.slots = t.slots /\ u.policy = t.policy
      /\ u.prime = t.prime /\ u.lookups = t.lookups /\ u.load = load /\ u.size = t.size
      /\ u = [entries |-> u.entries, slots |-> u.slots, policy |-> u.policy,
              prime |-> u.prime, lookups |-> u.lookups, load |-> u.load, size |-> u.size]
  BY DEF TableInv, Shape
<1>2. EndPos(u) = EndPos(t) /\ Filled(u) = Filled(t)
  BY <1>1 DEF EndPos, Filled
<1>3. Held(u) = Held(t)
  BY <1>1, <1>2 DEF Held
<1>4. Shape(u)
  BY <1>1, <1>2 DEF TableInv, Shape
<1>h. ASSUME NEW k PROVE Home(u, k) = Home(t, k)
  <2>1. u.slots = t.slots /\ u.policy = t.policy /\ u.prime = t.prime
    BY <1>1
  <2> QED
    BY <2>1, HomeSame
<1>5. WellPlaced(u)
  <2>1. WellPlaced(t)
    BY DEF TableInv
  <2> QED
    BY <2>1, <1>1, <1>2, <1>h DEF WellPlaced
<1>6. Distinct(u) /\ Ordered(u, hole) /\ Counted(u)
  BY <1>1, <1>2 DEF TableInv, Distinct, Ordered, Counted
<1> QED
  BY <1>2, <1>3, <1>4, <1>5, <1>6 DEF TableInv

-----------------------------------------------------------------------------
(* Rehashing.                                                              *)

LEMMA NextSizeType ==
    ASSUME NEW policy, NEW n \in Nat, SizesOver(policy, n) # {}
    PROVE  NextSizeOver(policy, n) \in Nat \ {0} /\ NextSizeOver(policy, n) >= n
<1>1. SizesOver(policy, n) \in SUBSET (Nat \ {0}) /\ \A s \in SizesOver(policy, n) : s >= n
  BY HashAssumption DEF SizesOver, Sizes
<1>2. SizesOver(policy, n) \in SUBSET Nat
  BY <1>1
<1>3. PICK s \in SizesOver(policy, n) : \A r \in SizesOver(policy, n) : s <= r
  BY <1>2, Least
<1>4. NextSizeOver(policy, n) \in SizesOver(policy, n)
  BY <1>3 DEF NextSizeOver
<1> QED
  BY <1>1, <1>4

\* Table t becomes new and goes on to emplace elems, which together are held.
Continues(t, held) ==
    \E new, elems :
        /\ Becomes(t, new) /\ GoesOn(t, elems)
        /\ TableInv(new, {}) /\ New(new, elems)
        /\ Held(new) \cup elems = held

\* A rehash forgets nothing, whether or not it needs a new buffer.  A table that has an
\* element in a wrong slot is rehashed too, by a grow that needs one.
LEMMA RehashStep ==
    ASSUME NEW t, NEW old, Shape(old), Distinct(old), Held(old) \subseteq Pairs,
           NEW request \in Nat, NEW rest, New(old, rest),
           TableInv(old, {}) \/ request > BucketCount(old),
           rehash(t, old, request, rest)
    PROVE  Continues(t, Held(old) \cup rest)
<1> DEFINE n == Bigger(request, BucketsFor(old))
           next == NextSizeOver(old.policy, n)
<1>1. BucketsFor(old) \in Nat /\ (BucketsFor(old) = 0 => old.size = 0)
      /\ old.policy \in Policies /\ old.load \in AllLoads /\ BucketCount(old) \in Nat \ {0}
  <2>1. old.policy \in Policies /\ old.load \in AllLoads /\ BucketCount(old) \in Nat \ {0}
    BY DEF Shape, BucketCount
  <2> QED
    BY <2>1, BucketsType
<1>2. n \in Nat /\ n >= request /\ n >= BucketsFor(old)
  BY <1>1 DEF Bigger
<1>3. \/ n = 0 /\ Becomes(t, reset_to_empty_state(old)) /\ GoesOn(t, rest)
      \/ /\ n > 0 /\ SizesOver(old.policy, n) # {} /\ next = BucketCount(old)
         /\ Becomes(t, old) /\ GoesOn(t, rest)
      \/ /\ n > 0 /\ SizesOver(old.policy, n) # {} /\ next # BucketCount(old)
         /\ Becomes(t, NewTable(old.policy, next, old.load)) /\ GoesOn(t, rest \cup Held(old))
  BY DEF rehash
<1> HIDE DEF n, next
<1>4. CASE n = 0 /\ Becomes(t, reset_to_empty_state(old)) /\ GoesOn(t, rest)
  <2>1. TableInv(old, {}) /\ old.size = 0
    BY <1>1, <1>2, <1>4
  <2>2. Filled(old) = {} /\ Held(old) = {}
    BY <2>1, FilledFinite, FS_EmptySet DEF TableInv, Counted, Held
  <2>3. PICK new : new = reset_to_empty_state(old)
    OBVIOUS
  <2>4. TableInv(new, {}) /\ Filled(new) = {} /\ Held(new) = {}
    BY <2>1, <2>3, <1>1, ResetInv
  <2>5. New(new, rest)
    BY <2>4 DEF New
  <2> QED
    BY <2>2, <2>3, <2>4, <2>5, <1>4 DEF Continues
<1>5. CASE /\ n > 0 /\ SizesOver(old.policy, n) # {} /\ next = BucketCount(old)
           /\ Becomes(t, old) /\ GoesOn(t, rest)
  <2>1. next >= n
    BY <1>2, <1>5, NextSizeType DEF next
  <2>2. TableInv(old, {})
    BY <2>1, <1>1, <1>2, <1>5
  <2> QED
    BY <2>2, <1>5 DEF Continues
<1>6. CASE /\ n > 0 /\ SizesOver(old.policy, n) # {} /\ next # BucketCount(old)
           /\ Becomes(t, NewTable(old.policy, next, old.load)) /\ GoesOn(t, rest \cup Held(old))
  <2>1. next \in Nat \ {0}
    BY <1>2, <1>6, NextSizeType DEF next
  <2>2. PICK new : new = NewTable(old.policy, next, old.load)
    OBVIOUS
  <2>3. TableInv(new, {}) /\ Filled(new) = {} /\ Held(new) = {}
    BY <2>1, <2>2, <1>1, NewTableInv
  <2>4. PICK elems : elems = rest \cup Held(old)
    OBVIOUS
  <2>5. New(new, elems)
    <3>1. elems \subseteq Pairs
      BY <2>4 DEF New
    <3>2. \A p, q \in Held(old) : KeyOf(p) = KeyOf(q) => p = q
      BY DEF Held, Distinct
    <3>3. \A p, q \in rest : KeyOf(p) = KeyOf(q) => p = q
      BY DEF New
    <3>4. \A p \in rest, q \in Held(old) : KeyOf(p) # KeyOf(q)
      BY DEF New, Held
    <3> QED
      BY <2>3, <2>4, <3>1, <3>2, <3>3, <3>4 DEF New
  <2>6. Held(new) \cup elems = Held(old) \cup rest
    BY <2>3, <2>4
  <2> QED
    BY <2>2, <2>3, <2>4, <2>5, <2>6, <1>6 DEF Continues
<1> QED
  BY <1>3, <1>4, <1>5, <1>6

LEMMA GrowStep ==
    ASSUME NEW t, NEW old, Shape(old), Distinct(old), Held(old) \subseteq Pairs,
           NEW rest, New(old, rest), grow(t, old, rest)
    PROVE  Continues(t, Held(old) \cup rest)
<1>1. BucketCount(old) \in Nat \ {0}
  BY DEF Shape, BucketCount
<1>2. PICK request : request = Bigger(4, 2 * BucketCount(old))
  OBVIOUS
<1>3. request \in Nat /\ request > BucketCount(old)
  BY <1>1, <1>2 DEF Bigger
<1> QED
  BY <1>2, <1>3, RehashStep DEF grow

-----------------------------------------------------------------------------
(* Steps.                                                                  *)

\* A step on table t keeps the invariant; t has the elements of held afterwards and
\* the other tables what they had.
Result(t, held) ==
    /\ IInv'
    /\ Contents(t)' = held
    /\ \A u \in Tables \ {t} : Contents(u)' = Contents(u)
    /\ on' \in {None, t}

\* What a step on table t may rely on.
LEMMA TableThen ==
    ASSUME IInv, NEW t \in Tables, on \in {None, t}, on' \in {None, t}, NEW new, Becomes(t, new)
    PROVE  /\ tab' = [u \in Tables |-> tab'[u]] /\ tab'[t] = new
           /\ \A u \in Tables \ {t} :
                 /\ TableInv(tab'[u], IF on' = u /\ phase' = "close" THEN Hole(gap') ELSE {})
                 /\ Contents(u)' = Contents(u)
<1>1. /\ tab = [u \in Tables |-> tab[u]]
      /\ \A u \in Tables : TableInv(tab[u], IF on = u /\ phase = "close" THEN Hole(gap) ELSE {})
  BY DEF IInv
<1>2. tab' = [u \in Tables |-> IF u = t THEN new ELSE tab[u]]
  BY <1>1 DEF Becomes
<1>3. ASSUME NEW u \in Tables \ {t}
      PROVE  /\ TableInv(tab'[u], IF on' = u /\ phase' = "close" THEN Hole(gap') ELSE {})
             /\ Contents(u)' = Contents(u)
  <2>1. tab'[u] = tab[u] /\ on # u /\ on' # u
    BY <1>2, HashAssumption
  <2>2. TableInv(tab[u], {})
    BY <1>1, <2>1
  <2> QED
    BY <2>1, <2>2 DEF Contents
<1> QED
  BY <1>2, <1>3

LEMMA Continued ==
    ASSUME IInv, NEW t \in Tables, on \in {None, t}, NEW held, Continues(t, held)
    PROVE  Result(t, held)
<1>1. PICK new, elems :
        /\ Becomes(t, new) /\ GoesOn(t, elems)
        /\ TableInv(new, {}) /\ New(new, elems)
        /\ Held(new) \cup elems = held
  BY DEF Continues
<1>2. /\ on' = IF elems = {} THEN None ELSE t
      /\ phase' = IF elems = {} THEN "idle" ELSE "emplace"
      /\ todo' = elems /\ carry' = NoCarry /\ gap' = NoGap /\ elems \subseteq Pairs
  BY <1>1 DEF GoesOn, New
<1>3. t # None
  BY HashAssumption
<1>4. /\ tab' = [u \in Tables |-> tab'[u]] /\ tab'[t] = new
      /\ \A u \in Tables \ {t} :
            /\ TableInv(tab'[u], IF on' = u /\ phase' = "close" THEN Hole(gap') ELSE {})
            /\ Contents(u)' = Contents(u)
  BY <1>1, <1>2, TableThen
<1>5. PhaseInv'
  <2>1. /\ NoCarry \in [elem : Pairs \cup {NoElem}, pos : Nat, dist : Nat, result : Nat]
        /\ NoGap \in [it : Nat, shift : Int]
    BY DEF NoCarry, NoGap
  <2> QED
    BY <1>2, <1>3, <2>1 DEF PhaseInv
<1>6. \A u \in Tables :
         TableInv(tab'[u], IF on' = u /\ phase' = "close" THEN Hole(gap') ELSE {})
  BY <1>1, <1>2, <1>4
<1>7. IInv'
  BY <1>1, <1>2, <1>4, <1>5, <1>6 DEF IInv
<1>8. Contents(t)' = held
  BY <1>1, <1>2, <1>3, <1>4 DEF Contents
<1> QED
  BY <1>2, <1>4, <1>7, <1>8 DEF Result

\* An element is on its way to a slot of new.
LEMMA Shifting ==
    ASSUME IInv, NEW t \in Tables, on \in {None, t}, NEW new, Becomes(t, new), TableInv(new, {}),
           on' = t, phase' = "shift", gap' = NoGap,
           carry' \in [elem : Pairs, pos : Nat, dist : Nat, result : Nat],
           New(new, todo' \cup {carry'.elem}), CarryInv(new, carry', todo')
    PROVE  Result(t, Held(new) \cup (todo' \cup {carry'.elem}))
<1>1. t # None
  BY HashAssumption
<1>2. /\ tab' = [u \in Tables |-> tab'[u]] /\ tab'[t] = new
      /\ \A u \in Tables \ {t} :
            /\ TableInv(tab'[u], IF on' = u /\ phase' = "close" THEN Hole(gap') ELSE {})
            /\ Contents(u)' = Contents(u)
  BY TableThen
<1>3. PhaseInv'
  <2>1. carry' \in [elem : Pairs \cup {NoElem}, pos : Nat, dist : Nat, result : Nat]
    OBVIOUS
  <2>2. NoGap \in [it : Nat, shift : Int]
    BY DEF NoGap
  <2>3. todo' \subseteq Pairs
    BY DEF New
  <2> QED
    BY <1>1, <2>1, <2>2, <2>3 DEF PhaseInv
<1>4. \A u \in Tables :
         TableInv(tab'[u], IF on' = u /\ phase' = "close" THEN Hole(gap') ELSE {})
  BY <1>2
<1>5. IInv'
  BY <1>2, <1>3, <1>4 DEF IInv
<1>6. Contents(t)' = Held(new) \cup (todo' \cup {carry'.elem})
  BY <1>1, <1>2 DEF Contents
<1> QED
  BY <1>2, <1>5, <1>6 DEF Result

\* A gap is open in new.
LEMMA Closing ==
    ASSUME IInv, NEW t \in Tables, on \in {None, t}, phase \in {"idle", "close"},
           NEW new, Becomes(t, new), on' = t, phase' = "close",
           UNCHANGED <<todo, carry>>, gap' \in [it : Nat, shift : Int],
           TableInv(new, Hole(gap')), GapInv(new, gap')
    PROVE  Result(t, Held(new))
<1>1. t # None
  BY HashAssumption
<1>2. /\ tab' = [u \in Tables |-> tab'[u]] /\ tab'[t] = new
      /\ \A u \in Tables \ {t} :
            /\ TableInv(tab'[u], IF on' = u /\ phase' = "close" THEN Hole(gap') ELSE {})
            /\ Contents(u)' = Contents(u)
  BY TableThen
<1>3. todo' = {} /\ carry' = NoCarry
  BY DEF IInv, PhaseInv
<1>4. PhaseInv'
  <2>1. NoCarry \in [elem : Pairs \cup {NoElem}, pos : Nat, dist : Nat, result : Nat]
    BY DEF NoCarry
  <2> QED
    BY <1>1, <1>3, <2>1 DEF PhaseInv
<1>5. \A u \in Tables :
         TableInv(tab'[u], IF on' = u /\ phase' = "close" THEN Hole(gap') ELSE {})
  BY <1>2
<1>6. IInv'
  BY <1>2, <1>4, <1>5 DEF IInv
<1>7. Contents(t)' = Held(new)
  BY <1>1, <1>2, <1>3 DEF Contents
<1> QED
  BY <1>2, <1>6, <1>7 DEF Result

\* The new elements are strangers to what is held.
LEMMA NewHeld ==
    ASSUME NEW t, NEW elems
    PROVE  New(t, elems) <=>
             /\ elems \subseteq Pairs
             /\ \A p, q \in elems : KeyOf(p) = KeyOf(q) => p = q
             /\ \A p \in elems, q \in Held(t) : KeyOf(p) # KeyOf(q)
<1>1. ASSUME NEW p \in elems
      PROVE  (\A i \in Filled(t) : KeyOf(p) # KeyOf(t.entries[i].elem))
             <=> \A q \in Held(t) : KeyOf(p) # KeyOf(q)
  BY DEF Held
<1> QED
  BY <1>1 DEF New

LEMMA HeldPairs ==
    ASSUME NEW t, WellPlaced(t)
    PROVE  Held(t) \subseteq Pairs
BY DEF WellPlaced, Held

\* A table of the system in which no gap is open.
LEMMA TableType ==
    ASSUME IInv, NEW t \in Tables, phase # "close" \/ on # t
    PROVE  /\ TableInv(tab[t], {}) /\ Shape(tab[t]) /\ WellPlaced(tab[t]) /\ Distinct(tab[t])
           /\ Ordered(tab[t], {}) /\ Counted(tab[t]) /\ Held(tab[t]) \subseteq Pairs
           /\ UNCHANGED tab => Becomes(t, tab[t])
<1>1. TableInv(tab[t], {})
  BY DEF IInv
<1>2. Shape(tab[t]) /\ WellPlaced(tab[t]) /\ Distinct(tab[t]) /\ Ordered(tab[t], {}) /\ Counted(tab[t])
  BY <1>1 DEF TableInv
<1>3. UNCHANGED tab => Becomes(t, tab[t])
  <2>1. tab = [u \in Tables |-> tab[u]]
    BY DEF IInv
  <2>2. tab = [tab EXCEPT ![t] = tab[t]]
    BY <2>1
  <2> QED
    BY <2>2 DEF Becomes
<1> QED
  BY <1>1, <1>2, <1>3, HeldPairs

\* Where the probe for a key that is not there has ended, its element may be put.
LEMMA ProbeFits ==
    ASSUME NEW t, Shape(t), WellPlaced(t), NEW elem \in Pairs, ~Found(t, KeyOf(elem)),
           \A i \in Filled(t) : KeyOf(t.entries[i].elem) # KeyOf(elem),
           NEW dist, dist = ProbeLength(t, KeyOf(elem)), dist # t.lookups,
           NEW pos, pos = Home(t, KeyOf(elem)) + dist
    PROVE  Fits(t, pos, dist, elem) /\ t.entries[pos].dist < dist
<1>1. KeyOf(elem) \in Keys
  BY DEF Pairs, KeyOf
<1>2. PICK h : h = Home(t, KeyOf(elem))
  OBVIOUS
<1>3. /\ dist \in 0..t.lookups /\ h \in 0..t.slots /\ pos = h + dist
      /\ t.entries[pos].dist < dist
      /\ \A j \in 0..(dist - 1) : t.entries[h + j].dist >= j
  BY <1>1, <1>2, ProbeFails
<1>4. t.slots \in Nat /\ t.lookups \in Nat /\ EndPos(t) = t.slots + t.lookups
  BY EntryType
<1>5. pos \in 0..(EndPos(t) - 1) /\ dist \in 0..(t.lookups - 1) /\ pos - dist = h
  BY <1>3, <1>4
<1>6. ASSUME NEW m \in 1..dist PROVE t.entries[pos - m].dist >= dist - m
  <2>1. dist - m \in 0..(dist - 1) /\ h + (dist - m) = pos - m
    BY <1>3, <1>4
  <2> QED
    BY <2>1, <1>3
<1> QED
  BY <1>2, <1>3, <1>5, <1>6 DEF Fits

LEMMA EmplaceNewKeyStep ==
    ASSUME IInv, NEW t \in Tables, on \in {None, t}, phase # "close",
           NEW elem \in Pairs, NEW rest, elem \notin rest, New(tab[t], rest \cup {elem}),
           ~Found(tab[t], KeyOf(elem)),
           NEW dist, dist = ProbeLength(tab[t], KeyOf(elem)),
           NEW pos, pos = Home(tab[t], KeyOf(elem)) + dist,
           emplace_new_key(t, pos, dist, elem, rest)
    PROVE  Result(t, Held(tab[t]) \cup (rest \cup {elem}))
<1>1. PICK old : old = tab[t]
  OBVIOUS
<1>2. /\ TableInv(old, {}) /\ Shape(old) /\ WellPlaced(old) /\ Distinct(old)
      /\ Held(old) \subseteq Pairs
  BY <1>1, TableType
<1>3. /\ rest \subseteq Pairs
      /\ \A p, q \in rest \cup {elem} : KeyOf(p) = KeyOf(q) => p = q
      /\ \A p \in rest \cup {elem}, q \in Held(old) : KeyOf(p) # KeyOf(q)
      /\ \A i \in Filled(old) : KeyOf(old.entries[i].elem) # KeyOf(elem)
  <2>1. PICK elems : elems = rest \cup {elem}
    OBVIOUS
  <2>2. New(old, elems)
    BY <2>1, <1>1
  <2>3. /\ elems \subseteq Pairs /\ \A p, q \in elems : KeyOf(p) = KeyOf(q) => p = q
        /\ \A p \in elems, q \in Held(old) : KeyOf(p) # KeyOf(q)
    BY <2>2, NewHeld
  <2>4. \A p \in elems : \A i \in Filled(old) : KeyOf(p) # KeyOf(old.entries[i].elem)
    BY <2>2 DEF New
  <2> QED
    BY <2>1, <2>3, <2>4
<1>4. PICK e : e = old.entries[pos]
  OBVIOUS
<1>5. PICK mustGrow \in BOOLEAN :
        mustGrow <=> old.slots = 0 \/ dist = old.lookups \/ TooFull(old)
  OBVIOUS
<1>6. \/ mustGrow /\ grow(t, old, rest \cup {elem})
      \/ /\ ~mustGrow /\ ~HasValue(e)
         /\ Becomes(t, PlaceNew(old, pos, dist, elem)) /\ GoesOn(t, rest)
      \/ /\ ~mustGrow /\ HasValue(e)
         /\ Becomes(t, Place(old, pos, dist, elem))
         /\ on' = t /\ phase' = "shift" /\ todo' = rest /\ gap' = NoGap
         /\ carry' = [elem |-> e.elem, pos |-> pos + 1, dist |-> e.dist + 1, result |-> pos]
  BY <1>1, <1>4, <1>5 DEF emplace_new_key
<1>7. CASE mustGrow /\ grow(t, old, rest \cup {elem})
  <2>1. Continues(t, Held(old) \cup (rest \cup {elem}))
    BY <1>1, <1>2, <1>7, GrowStep
  <2> QED
    BY <2>1, <1>1, Continued
<1>8. ~mustGrow => Fits(old, pos, dist, elem) /\ old.entries[pos].dist < dist
  BY <1>1, <1>2, <1>3, <1>5, ProbeFits
<1>9. CASE /\ ~mustGrow /\ ~HasValue(e)
           /\ Becomes(t, PlaceNew(old, pos, dist, elem)) /\ GoesOn(t, rest)
  <2>1. PICK new : new = PlaceNew(old, pos, dist, elem)
    OBVIOUS
  <2>2. TableInv(new, {}) /\ Held(new) = Held(old) \cup {elem}
    BY <2>1, <1>2, <1>4, <1>8, <1>9, PlaceNewInv
  <2>3. New(new, rest)
    BY <2>2, <1>3, NewHeld
  <2>4. Continues(t, Held(old) \cup (rest \cup {elem}))
    BY <2>1, <2>2, <2>3, <1>9 DEF Continues
  <2> QED
    BY <2>4, <1>1, Continued
<1>10. CASE /\ ~mustGrow /\ HasValue(e)
            /\ Becomes(t, Place(old, pos, dist, elem))
            /\ on' = t /\ phase' = "shift" /\ todo' = rest /\ gap' = NoGap
            /\ carry' = [elem |-> e.elem, pos |-> pos + 1, dist |-> e.dist + 1, result |-> pos]
  <2>1. PICK new : new = Place(old, pos, dist, elem)
    OBVIOUS
  <2>2. /\ TableInv(new, {}) /\ EndPos(new) = EndPos(old)
        /\ Filled(new) = Filled(old) /\ pos \in Filled(new)
        /\ Held(new) \cup {e.elem} = Held(old) \cup {elem}
        /\ e.elem \in Pairs /\ KeyOf(e.elem) # KeyOf(elem) /\ e.elem \in Held(old)
        /\ pos + 1 - (e.dist + 1) = Home(new, KeyOf(e.elem))
        /\ e.dist + 1 \in 1..(new.lookups - 1)
        /\ \A m \in 1..(e.dist + 1) : new.entries[pos + 1 - m].dist >= e.dist + 1 - m
        /\ \A i \in Filled(new) : KeyOf(new.entries[i].elem) # KeyOf(e.elem)
    BY <2>1, <1>2, <1>4, <1>8, <1>10, PlaceOverInv
  <2>3. pos \in Nat /\ e.dist + 1 \in Nat
    <3>1. pos \in 0..(EndPos(old) - 1) /\ EndPos(old) \in Nat
      BY <1>2, <1>8, <1>10, EntryType DEF Fits
    <3> QED
      BY <3>1, <2>2
  <2>4. New(new, rest \cup {e.elem})
    <3>1. \A q \in Held(new) : KeyOf(q) # KeyOf(e.elem)
      BY <2>2 DEF Held
    <3>2. \A p \in rest : KeyOf(p) # KeyOf(e.elem)
      BY <2>2, <1>3
    <3>3. \A p \in rest, q \in Held(new) : KeyOf(p) # KeyOf(q)
      <4>1. \A p \in rest : KeyOf(p) # KeyOf(elem)
        BY <1>3
      <4> QED
        BY <4>1, <2>2, <1>3
    <3> QED
      BY <3>1, <3>2, <3>3, <2>2, <1>3, NewHeld
  <2>5. CarryInv(new, carry', rest)
    <3>1. e.elem \notin rest
      BY <2>2, <1>3
    <3>2. PICK c : c = carry'
      OBVIOUS
    <3>3. c.elem = e.elem /\ c.pos = pos + 1 /\ c.dist = e.dist + 1 /\ c.result = pos
      BY <3>2, <1>10
    <3>4. \A m \in 1..c.dist : new.entries[c.pos - m].dist >= c.dist - m
      <4>1. PICK p, d : p = pos + 1 /\ d = e.dist + 1
        OBVIOUS
      <4>2. \A m \in 1..d : new.entries[p - m].dist >= d - m
        <5>1. \A m \in 1..(e.dist + 1) : new.entries[pos + 1 - m].dist >= e.dist + 1 - m
          BY <2>2
        <5>2. e.dist \in Int /\ pos \in Int
          BY <1>2, <1>4, <1>8, <1>10, EntryType DEF Fits
        <5> QED
          BY <4>1, <5>1, <5>2
      <4>3. c.pos = p /\ c.dist = d
        BY <4>1, <3>3
      <4> QED
        BY <4>2, <4>3
    <3>5. CarryInv(new, c, rest)
      <4>1. c.elem \in Pairs /\ c.elem \notin rest /\ c.result \in Filled(new)
        BY <3>1, <3>3, <2>2
      <4>2. c.pos - c.dist = Home(new, KeyOf(c.elem))
        BY <3>3, <2>2
      <4>3. c.dist \in 1..(new.lookups - 1)
        BY <3>3, <2>2
      <4> QED
        BY <4>1, <4>2, <4>3, <3>4 DEF CarryInv
    <3> QED
      BY <3>2, <3>5
  <2>6. carry' \in [elem : Pairs, pos : Nat, dist : Nat, result : Nat] /\ carry'.elem = e.elem
    BY <2>2, <2>3, <1>10
  <2>7. Result(t, Held(new) \cup (todo' \cup {carry'.elem}))
    BY <2>1, <2>2, <2>4, <2>5, <2>6, <1>10, Shifting
  <2>8. Held(new) \cup (todo' \cup {carry'.elem}) = Held(old) \cup (rest \cup {elem})
    BY <2>2, <2>6, <1>10
  <2> QED
    BY <2>7, <2>8, <1>1
<1> QED
  BY <1>6, <1>7, <1>9, <1>10

LEMMA EmplaceStep ==
    ASSUME IInv, NEW t \in Tables, on \in {None, t}, phase # "close",
           NEW elem \in Pairs, NEW rest, elem \notin rest, New(tab[t], rest),
           \A p \in rest : KeyOf(p) # KeyOf(elem), emplace(t, elem, rest)
    PROVE  \/ Found(tab[t], KeyOf(elem)) /\ Result(t, Held(tab[t]) \cup rest)
           \/ /\ \A q \in Held(tab[t]) : KeyOf(q) # KeyOf(elem)
              /\ Result(t, Held(tab[t]) \cup (rest \cup {elem}))
<1>1. /\ TableInv(tab[t], {}) /\ Shape(tab[t]) /\ WellPlaced(tab[t]) /\ Distinct(tab[t])
      /\ Ordered(tab[t], {}) /\ (UNCHANGED tab => Becomes(t, tab[t]))
  BY TableType
<1>2. CASE Found(tab[t], KeyOf(elem)) /\ UNCHANGED tab /\ GoesOn(t, rest)
  <2>1. PICK old : old = tab[t]
    OBVIOUS
  <2>2. Continues(t, Held(old) \cup rest)
    BY <2>1, <1>1, <1>2 DEF Continues
  <2> QED
    BY <2>1, <2>2, <1>2, Continued
<1>3. CASE ~Found(tab[t], KeyOf(elem))
  <2>1. \A i \in Filled(tab[t]) : KeyOf(tab[t].entries[i].elem) # KeyOf(elem)
    BY <1>1, <1>3, ElementFound
  <2>2. \A q \in Held(tab[t]) : KeyOf(q) # KeyOf(elem)
    BY <2>1 DEF Held
  <2>3. New(tab[t], rest \cup {elem})
    BY <2>1 DEF New
  <2>4. PICK dist, pos : /\ dist = ProbeLength(tab[t], KeyOf(elem))
                         /\ pos = Home(tab[t], KeyOf(elem)) + dist
    OBVIOUS
  <2>5. emplace_new_key(t, pos, dist, elem, rest)
    BY <2>4, <1>3 DEF emplace
  <2>6. Result(t, Held(tab[t]) \cup (rest \cup {elem}))
    BY <2>3, <2>4, <2>5, <1>3, EmplaceNewKeyStep
  <2> QED
    BY <2>2, <2>6
<1> QED
  BY <1>2, <1>3 DEF emplace

\* The carried element may be put where it is.
LEMMA CarryFits ==
    ASSUME NEW t, Shape(t), NEW rest, NEW c, CarryInv(t, c, rest),
           c \in [elem : Pairs \cup {NoElem}, pos : Nat, dist : Nat, result : Nat],
           New(t, rest \cup {c.elem})
    PROVE  Fits(t, c.pos, c.dist, c.elem)
<1>1. /\ c.elem \in Pairs /\ c.pos \in Nat /\ c.dist \in Nat
      /\ c.pos - c.dist = Home(t, KeyOf(c.elem)) /\ c.dist \in 1..(t.lookups - 1)
      /\ \A m \in 1..c.dist : t.entries[c.pos - m].dist >= c.dist - m
  BY DEF CarryInv
<1>2. Home(t, KeyOf(c.elem)) \in 0..t.slots
  BY <1>1, HomeType DEF Pairs, KeyOf
<1>3. c.pos \in 0..(EndPos(t) - 1) /\ c.dist \in 0..(t.lookups - 1)
  <2>1. t.slots \in Nat /\ t.lookups \in Nat /\ EndPos(t) = t.slots + t.lookups
    BY EntryType
  <2> QED
    BY <2>1, <1>1, <1>2
<1>4. \A i \in Filled(t) : KeyOf(t.entries[i].elem) # KeyOf(c.elem)
  BY DEF New
<1> QED
  BY <1>1, <1>3, <1>4 DEF Fits

\* The state of a displacement.
LEMMA ShiftState ==
    ASSUME IInv, NEW t \in Tables, phase = "shift", on = t, NEW old, old = tab[t]
    PROVE  /\ TableInv(old, {}) /\ Shape(old) /\ WellPlaced(old) /\ Distinct(old)
           /\ Held(old) \subseteq Pairs
           /\ carry \in [elem : Pairs \cup {NoElem}, pos : Nat, dist : Nat, result : Nat]
           /\ CarryInv(old, carry, todo) /\ Fits(old, carry.pos, carry.dist, carry.elem)
           /\ New(old, todo \cup {carry.elem}) /\ carry.elem \in Pairs /\ carry.elem \notin todo
           /\ todo \subseteq Pairs
           /\ \A p \in todo : KeyOf(p) # KeyOf(carry.elem)
           /\ \A p, q \in todo : KeyOf(p) = KeyOf(q) => p = q
           /\ \A p \in todo \cup {carry.elem}, q \in Held(old) : KeyOf(p) # KeyOf(q)
           /\ Contents(t) = Held(old) \cup (todo \cup {carry.elem})
<1>1. /\ TableInv(old, {}) /\ Shape(old) /\ WellPlaced(old) /\ Distinct(old)
      /\ Held(old) \subseteq Pairs
  BY TableType
<1>2. /\ carry \in [elem : Pairs \cup {NoElem}, pos : Nat, dist : Nat, result : Nat]
      /\ CarryInv(old, carry, todo) /\ New(old, todo \cup {carry.elem})
  BY DEF IInv, PhaseInv
<1>3. PICK c, elems : c = carry /\ elems = todo \cup {carry.elem}
  OBVIOUS
<1>4. Fits(old, carry.pos, carry.dist, carry.elem)
  <2>1. Fits(old, c.pos, c.dist, c.elem)
    BY <1>1, <1>2, <1>3, CarryFits
  <2> QED
    BY <2>1, <1>3
<1>5. carry.elem \in Pairs /\ carry.elem \notin todo
  BY <1>2 DEF CarryInv
<1>6. /\ elems \subseteq Pairs /\ \A p, q \in elems : KeyOf(p) = KeyOf(q) => p = q
      /\ \A p \in elems, q \in Held(old) : KeyOf(p) # KeyOf(q)
  BY <1>2, <1>3, NewHeld
<1>7. Contents(t) = Held(old) \cup (todo \cup {carry.elem})
  BY DEF Contents
<1>8. \A p \in todo : KeyOf(p) # KeyOf(carry.elem)
  BY <1>3, <1>5, <1>6
<1> QED
  BY <1>1, <1>2, <1>3, <1>4, <1>5, <1>6, <1>7, <1>8

LEMMA PutDownStep ==
    ASSUME IInv, NEW t \in Tables, phase = "shift", on = t, PutDown(t)
    PROVE  Result(t, Contents(t))
<1>1. PICK old, new, held :
        /\ old = tab[t] /\ new = PlaceNew(old, carry.pos, carry.dist, carry.elem)
        /\ held = Held(old) \cup (todo \cup {carry.elem})
  OBVIOUS
<1>2. ~HasValue(old.entries[carry.pos]) /\ Becomes(t, new) /\ GoesOn(t, todo)
  BY <1>1 DEF PutDown
<1>3. TableInv(old, {}) /\ Fits(old, carry.pos, carry.dist, carry.elem)
  BY <1>1, ShiftState
<1>4. TableInv(new, {}) /\ Held(new) = Held(old) \cup {carry.elem}
  BY <1>1, <1>2, <1>3, PlaceNewInv
<1>5. New(new, todo)
  BY <1>1, <1>4, ShiftState, NewHeld
<1>6. Continues(t, held)
  BY <1>1, <1>2, <1>4, <1>5 DEF Continues
<1>7. Result(t, held)
  BY <1>6, Continued
<1> QED
  BY <1>1, <1>7, ShiftState

LEMMA PassStep ==
    ASSUME IInv, NEW t \in Tables, phase = "shift", on = t, Pass(t)
    PROVE  Result(t, Contents(t))
<1>1. PICK old, c, d : old = tab[t] /\ c = carry /\ d = carry'
  OBVIOUS
<1>2. /\ TableInv(old, {}) /\ Shape(old) /\ CarryInv(old, c, todo)
      /\ Fits(old, c.pos, c.dist, c.elem)
      /\ c \in [elem : Pairs \cup {NoElem}, pos : Nat, dist : Nat, result : Nat]
      /\ New(old, todo \cup {c.elem})
      /\ Contents(t) = Held(old) \cup (todo \cup {c.elem})
  BY <1>1, ShiftState
<1>3. /\ old.entries[c.pos].dist >= c.dist /\ c.dist + 1 # old.lookups
      /\ d = [c EXCEPT !.pos = @ + 1, !.dist = @ + 1]
      /\ UNCHANGED <<tab, on, phase, todo, gap>>
  BY <1>1 DEF Pass
<1>4. /\ c.elem \in Pairs /\ c.pos \in Int /\ c.dist \in Int /\ c.pos \in Nat /\ c.dist \in Nat
      /\ c.result \in Nat /\ c.elem \notin todo
      /\ c.pos - c.dist = Home(old, KeyOf(c.elem)) /\ c.dist \in 1..(old.lookups - 1)
      /\ c.result \in Filled(old)
      /\ \A m \in 1..c.dist : old.entries[c.pos - m].dist >= c.dist - m
  BY <1>2 DEF CarryInv
<1>5. d.elem = c.elem /\ d.pos = c.pos + 1 /\ d.dist = c.dist + 1 /\ d.result = c.result
      /\ d \in [elem : Pairs, pos : Nat, dist : Nat, result : Nat]
  <2>1. c = [elem |-> c.elem, pos |-> c.pos, dist |-> c.dist, result |-> c.result]
    BY <1>2
  <2>2. d = [elem |-> c.elem, pos |-> c.pos + 1, dist |-> c.dist + 1, result |-> c.result]
    BY <2>1, <1>3
  <2> QED
    BY <2>2, <1>4
<1>6. old.lookups \in Int
  BY <1>2, EntryType
<1>7. ASSUME NEW m \in 1..d.dist PROVE old.entries[d.pos - m].dist >= d.dist - m
  <2>1. CASE m = 1
    BY <2>1, <1>3, <1>4, <1>5
  <2>2. CASE m # 1
    <3>1. m - 1 \in 1..c.dist /\ c.pos - (m - 1) = d.pos - m /\ c.dist - (m - 1) = d.dist - m
      BY <2>2, <1>4, <1>5
    <3> QED
      BY <3>1, <1>4
  <2> QED
    BY <2>1, <2>2
<1>8. CarryInv(old, d, todo)
  <2>1. d.pos - d.dist = Home(old, KeyOf(d.elem)) /\ d.dist \in 1..(old.lookups - 1)
    BY <1>3, <1>4, <1>5, <1>6
  <2> QED
    BY <2>1, <1>4, <1>5, <1>7 DEF CarryInv
<1>9. Becomes(t, old) /\ gap' = NoGap
  BY <1>1, <1>3, TableType DEF IInv, PhaseInv
<1>10. Result(t, Held(old) \cup (todo' \cup {carry'.elem}))
  BY <1>1, <1>2, <1>3, <1>5, <1>8, <1>9, Shifting
<1> QED
  BY <1>1, <1>2, <1>3, <1>5, <1>10

LEMMA DisplaceStep ==
    ASSUME IInv, NEW t \in Tables, phase = "shift", on = t, Displace(t)
    PROVE  Result(t, Contents(t))
<1>1. PICK old, c, d, new, e :
        /\ old = tab[t] /\ c = carry /\ d = carry' /\ e = old.entries[c.pos]
        /\ new = Place(old, c.pos, c.dist, c.elem)
  OBVIOUS
<1>2. /\ TableInv(old, {}) /\ Shape(old) /\ CarryInv(old, c, todo)
      /\ Fits(old, c.pos, c.dist, c.elem)
      /\ c \in [elem : Pairs \cup {NoElem}, pos : Nat, dist : Nat, result : Nat]
      /\ \A p \in todo : KeyOf(p) # KeyOf(c.elem)
      /\ \A p, q \in todo : KeyOf(p) = KeyOf(q) => p = q
      /\ \A p \in todo \cup {c.elem}, q \in Held(old) : KeyOf(p) # KeyOf(q)
      /\ todo \subseteq Pairs
      /\ Contents(t) = Held(old) \cup (todo \cup {c.elem})
  BY <1>1, ShiftState
<1>3. /\ HasValue(e) /\ e.dist < c.dist
      /\ d = [c EXCEPT !.elem = e.elem, !.pos = @ + 1, !.dist = e.dist + 1]
      /\ Becomes(t, new) /\ UNCHANGED <<on, phase, todo, gap>>
  BY <1>1 DEF Displace
<1>4. /\ TableInv(new, {}) /\ Filled(new) = Filled(old)
      /\ Held(new) \cup {e.elem} = Held(old) \cup {c.elem}
      /\ e.elem \in Pairs /\ e.elem \in Held(old)
      /\ c.pos + 1 - (e.dist + 1) = Home(new, KeyOf(e.elem))
      /\ e.dist + 1 \in 1..(new.lookups - 1)
      /\ \A i \in Filled(new) : KeyOf(new.entries[i].elem) # KeyOf(e.elem)
  <2>1. TableInv(new, {}) /\ Filled(new) = Filled(old)
    BY <1>1, <1>2, <1>3, PlaceOverInv
  <2>2. Held(new) \cup {e.elem} = Held(old) \cup {c.elem}
    BY <1>1, <1>2, <1>3, PlaceOverInv
  <2>3. e.elem \in Pairs /\ e.elem \in Held(old)
    BY <1>1, <1>2, <1>3, PlaceOverInv
  <2>4. /\ c.pos + 1 - (e.dist + 1) = Home(new, KeyOf(e.elem))
        /\ e.dist + 1 \in 1..(new.lookups - 1)
    BY <1>1, <1>2, <1>3, PlaceOverInv
  <2>5. \A i \in Filled(new) : KeyOf(new.entries[i].elem) # KeyOf(e.elem)
    BY <1>1, <1>2, <1>3, PlaceOverInv
  <2> QED
    BY <2>1, <2>2, <2>3, <2>4, <2>5
<1>5. \A m \in 1..(e.dist + 1) : new.entries[c.pos + 1 - m].dist >= e.dist + 1 - m
  BY <1>1, <1>2, <1>3, PlaceOverInv
<1>6. c.pos \in Nat /\ c.result \in Nat /\ c.result \in Filled(old)
  BY <1>2 DEF CarryInv
<1>7. e.dist \in Int /\ c.pos \in Int
  BY <1>1, <1>2, <1>6, EntryType DEF Fits
<1>8. d.elem = e.elem /\ d.pos = c.pos + 1 /\ d.dist = e.dist + 1 /\ d.result = c.result
      /\ d \in [elem : Pairs, pos : Nat, dist : Nat, result : Nat]
  <2>1. c = [elem |-> c.elem, pos |-> c.pos, dist |-> c.dist, result |-> c.result]
    BY <1>2
  <2>2. d = [elem |-> e.elem, pos |-> c.pos + 1, dist |-> e.dist + 1, result |-> c.result]
    BY <2>1, <1>3
  <2>3. e.dist + 1 \in Nat
    BY <1>4
  <2> QED
    BY <2>2, <2>3, <1>4, <1>6
<1>9. New(new, todo \cup {e.elem})
  <2>1. \A q \in Held(new) : KeyOf(q) # KeyOf(e.elem)
    BY <1>4 DEF Held
  <2>2. \A p \in todo : KeyOf(p) # KeyOf(e.elem)
    BY <1>2, <1>4
  <2>3. \A p \in todo, q \in Held(new) : KeyOf(p) # KeyOf(q)
    BY <1>2, <1>4
  <2> QED
    BY <2>1, <2>2, <2>3, <1>2, <1>4, NewHeld
<1>10. CarryInv(new, d, todo)
  <2>1. e.elem \notin todo
    BY <1>2, <1>4
  <2>2. \A m \in 1..d.dist : new.entries[d.pos - m].dist >= d.dist - m
    <3>1. d.pos = c.pos + 1 /\ d.dist = e.dist + 1
      BY <1>8
    <3> QED
      BY <3>1, <1>5, <1>7
  <2> QED
    BY <2>1, <2>2, <1>4, <1>6, <1>8 DEF CarryInv
<1>11. gap' = NoGap
  BY <1>3 DEF IInv, PhaseInv
<1>12. /\ on' = t /\ phase' = "shift" /\ todo' = todo /\ carry' = d /\ carry'.elem = e.elem
       /\ Becomes(t, new)
  BY <1>1, <1>3, <1>8
<1>13. Result(t, Held(new) \cup (todo' \cup {carry'.elem}))
  <2>1. New(new, todo' \cup {carry'.elem}) /\ CarryInv(new, carry', todo')
    BY <1>9, <1>10, <1>12
  <2>2. carry' \in [elem : Pairs, pos : Nat, dist : Nat, result : Nat]
    BY <1>8, <1>12
  <2> QED
    BY <2>1, <2>2, <1>4, <1>11, <1>12, Shifting
<1>14. Held(new) \cup (todo' \cup {carry'.elem}) = Contents(t)
  <2>1. Held(new) \cup (todo \cup {e.elem}) = Held(old) \cup (todo \cup {c.elem})
    BY <1>4
  <2> QED
    BY <2>1, <1>2, <1>12
<1> QED
  BY <1>13, <1>14

LEMMA GiveUpStep ==
    ASSUME IInv, NEW t \in Tables, phase = "shift", on = t, GiveUp(t)
    PROVE  Result(t, Contents(t))
<1>1. PICK old, c, r, x, new :
        /\ old = tab[t] /\ c = carry.elem /\ r = carry.result /\ x = old.entries[r].elem
        /\ new = WithElem(old, r, c)
  OBVIOUS
<1>2. /\ TableInv(old, {}) /\ Shape(old) /\ WellPlaced(old) /\ Distinct(old) /\ r \in Filled(old)
      /\ c \in Pairs /\ todo \subseteq Pairs
      /\ \A p \in todo : KeyOf(p) # KeyOf(c)
      /\ \A p, q \in todo : KeyOf(p) = KeyOf(q) => p = q
      /\ \A p \in todo \cup {c}, q \in Held(old) : KeyOf(p) # KeyOf(q)
      /\ Contents(t) = Held(old) \cup (todo \cup {c})
  BY <1>1, ShiftState DEF CarryInv
<1>3. grow(t, new, todo \cup {x})
  BY <1>1 DEF GiveUp, WithElem
<1>4. /\ Shape(new) /\ Filled(new) = Filled(old)
      /\ \A i \in Filled(old) : i # r => new.entries[i] = old.entries[i]
      /\ new.entries[r].elem = c
  BY <1>1, <1>2, ElemFields
<1>5. \A i \in Filled(old) : old.entries[i].elem \in Held(old) /\ old.entries[i].elem \in Pairs
  BY <1>2 DEF Held, WellPlaced
<1>6. Distinct(new)
  <2> SUFFICES ASSUME NEW i \in Filled(new), NEW j \in Filled(new),
                      KeyOf(new.entries[i].elem) = KeyOf(new.entries[j].elem)
               PROVE  i = j
    BY DEF Distinct
  <2>1. CASE i # r /\ j # r
    BY <2>1, <1>2, <1>4 DEF Distinct
  <2>2. CASE (i = r /\ j # r) \/ (i # r /\ j = r)
    BY <2>2, <1>2, <1>4, <1>5
  <2> QED
    BY <2>1, <2>2
<1>7. Held(new) \subseteq Pairs
  BY <1>2, <1>4, <1>5 DEF Held
<1>8. x \in Held(old) /\ x \in Pairs
  BY <1>1, <1>2, <1>5
<1>9. \A q \in Held(new) : q = c \/ (q \in Held(old) /\ KeyOf(q) # KeyOf(x))
  BY <1>1, <1>2, <1>4, <1>5 DEF Held, Distinct
<1>10. New(new, todo \cup {x})
  <2>1. \A p \in todo \cup {x}, q \in Held(new) : KeyOf(p) # KeyOf(q)
    BY <1>2, <1>8, <1>9
  <2>2. \A p, q \in todo \cup {x} : KeyOf(p) = KeyOf(q) => p = q
    BY <1>2, <1>8
  <2> QED
    BY <2>1, <2>2, <1>2, <1>8, NewHeld
<1>11. Held(new) \cup (todo \cup {x}) = Held(old) \cup (todo \cup {c})
  <2>1. Held(old) \subseteq Held(new) \cup {x}
    BY <1>1, <1>4 DEF Held
  <2>2. c \in Held(new)
    BY <1>2, <1>4 DEF Held
  <2> QED
    BY <2>1, <2>2, <1>8, <1>9
<1>12. PICK rest : rest = todo \cup {x}
  OBVIOUS
<1>13. Continues(t, Held(new) \cup rest)
  BY <1>3, <1>4, <1>6, <1>7, <1>10, <1>12, GrowStep
<1>14. Result(t, Held(new) \cup rest)
  BY <1>13, Continued
<1> QED
  BY <1>2, <1>11, <1>12, <1>14

LEMMA ShiftStep ==
    ASSUME IInv, NEW t \in Tables, Shift(t)
    PROVE  Result(t, Contents(t))
BY PutDownStep, DisplaceStep, PassStep, GiveUpStep DEF Shift

\* A table that does nothing more.
LEMMA Settles ==
    ASSUME IInv, NEW t \in Tables, on \in {None, t}, NEW new, Becomes(t, new), Returns(t),
           TableInv(new, {}), NEW held, held = Held(new)
    PROVE  Result(t, held)
<1>1. New(new, {})
  BY DEF New
<1>2. Continues(t, held)
  BY <1>1 DEF Continues, Returns
<1> QED
  BY <1>2, Continued

\* The closing of a gap moves elements and loses none.
LEMMA GapStep ==
    ASSUME IInv, NEW t \in Tables, Close(t)
    PROVE  Result(t, Contents(t))
<1>1. PICK old, it, shift, held :
        old = tab[t] /\ it = gap.it /\ shift = gap.shift /\ held = Held(old)
  OBVIOUS
<1>2. phase = "close" /\ on = t /\ CloseStep(t)
  BY DEF Close
<1>3. /\ TableInv(old, Hole(gap)) /\ GapInv(old, gap) /\ todo = {}
      /\ gap \in [it : Nat, shift : Int]
  BY <1>1, <1>2 DEF IInv, PhaseInv
<1>4. Contents(t) = held
  BY <1>1, <1>2, <1>3 DEF Contents
<1>5. GapAt(old, it, shift) /\ it \in Nat /\ shift \in Int /\ it <= EndPos(old) /\ shift <= it
  BY <1>1, <1>3 DEF GapAt, GapInv, Hole
<1>6. CASE AtDesired(old.entries[it])
  <2>1. UNCHANGED tab /\ Returns(t)
    BY <1>1, <1>2, <1>6 DEF CloseStep
  <2>2. TableInv(old, {})
    BY <1>5, <1>6, GapCloses
  <2>3. Becomes(t, old)
    <3>1. tab = [tab EXCEPT ![t] = tab[t]]
      <4>1. tab = [u \in Tables |-> tab[u]]
        BY DEF IInv
      <4> QED
        BY <4>1
    <3> QED
      BY <3>1, <2>1, <1>1 DEF Becomes
  <2>4. Result(t, held)
    BY <2>1, <2>2, <2>3, <1>1, <1>2, Settles
  <2> QED
    BY <2>4, <1>4
<1>7. CASE ~AtDesired(old.entries[it])
  <2>1. PICK rest, new, g : /\ rest = Smaller(old.entries[it + 1].dist, shift)
                            /\ new = MovedBy(old, it, shift)
                            /\ g = gap'
    OBVIOUS
  <2>2. /\ Becomes(t, new) /\ g = [it |-> it + 1, shift |-> rest]
        /\ UNCHANGED <<on, phase, todo, carry>>
    BY <1>1, <1>2, <1>7, <2>1 DEF CloseStep, MovedBy
  <2>3. PICK e : e = old.entries[it]
    OBVIOUS
  <2>4. TableInv(new, (it + 1 - rest)..it) /\ Held(new) = Held(old) /\ it + 1 <= EndPos(new)
    <3>1. TableInv(new, (it + 1 - rest)..it)
      BY <1>5, <1>7, <2>1, <2>3, GapMoves
    <3>2. Held(new) = Held(old)
      BY <1>5, <1>7, <2>1, <2>3, GapMoves
    <3>3. it + 1 <= EndPos(new)
      BY <1>5, <1>7, <2>1, <2>3, GapMoves
    <3> QED
      BY <3>1, <3>2, <3>3
  <2>5. /\ ~AtDesired(new.entries[it + 1]) => rest \in 1..new.entries[it + 1].dist
        /\ \A i \in (it + 1 - rest)..it : ~HasValue(new.entries[i])
    BY <1>5, <1>7, <2>1, <2>3, GapMoves
  <2>6. rest \in Int
    BY <1>5, <1>7, <2>1, <2>3, GapMoves
  <2>h. g.it = it + 1 /\ g.shift = rest
    BY <2>2
  <2>g. g \in [it : Nat, shift : Int]
    BY <2>2, <2>6, <1>5
  <2>e. Hole(g) = (it + 1 - rest)..it
    <3>1. it \in Int
      BY <1>5
    <3> QED
      BY <3>1, <2>6, <2>h DEF Hole
  <2>s. rest <= it + 1
    <3>1. /\ old.entries[it + 1].dist \in Int /\ it \in Int /\ shift \in Int /\ shift <= it
      <4>1. Shape(old) /\ it + 1 \in 0..EndPos(old)
        <5>1. Shape(old) /\ EndPos(old) \in Int
          BY <1>5, EntryType DEF GapAt, TableInv
        <5>2. it # EndPos(old)
          BY <5>1, <1>7, EntryType DEF AtDesired
        <5> QED
          BY <5>1, <5>2, <1>5
      <4> QED
        BY <4>1, <1>5, EntryType
    <3> QED
      BY <3>1, <2>1 DEF Smaller
  <2>7. TableInv(new, Hole(g)) /\ GapInv(new, g)
    BY <2>4, <2>5, <2>h, <2>e, <2>s DEF GapInv
  <2>8. Result(t, Held(new))
    BY <2>1, <2>2, <2>g, <2>7, <1>2, Closing
  <2> QED
    BY <2>4, <2>8, <1>1, <1>4
<1> QED
  BY <1>6, <1>7

\* What an idle table holds.
LEMMA IdleTable ==
    ASSUME IInv, Idle, NEW t \in Tables
    PROVE  /\ on = None /\ todo = {} /\ phase = "idle"
           /\ TableInv(tab[t], {}) /\ Shape(tab[t]) /\ WellPlaced(tab[t]) /\ Distinct(tab[t])
           /\ Ordered(tab[t], {}) /\ Counted(tab[t]) /\ Held(tab[t]) \subseteq Pairs
           /\ UNCHANGED tab => Becomes(t, tab[t])
           /\ Contents(t) = Held(tab[t])
<1>1. on = None /\ todo = {} /\ phase = "idle" /\ t # None
  BY HashAssumption DEF IInv, PhaseInv, Idle
<1> QED
  BY <1>1, TableType DEF Contents

LEMMA EmplaceActionStep ==
    ASSUME IInv, NEW t \in Tables, Emplace(t)
    PROVE  \/ Result(t, Contents(t))
           \/ \E elem \in Pairs : /\ \A q \in Contents(t) : KeyOf(q) # KeyOf(elem)
                                  /\ Result(t, Contents(t) \cup {elem})
<1>1. PICK elem \in Elements \cup {<<w[1], Default>> : w \in Writes} : emplace(t, elem, {})
  BY DEF Emplace
<1>2. elem \in Pairs
  BY HashAssumption DEF Pairs
<1>3. on = None /\ phase = "idle" /\ Contents(t) = Held(tab[t])
  BY IdleTable DEF Emplace, Ready
<1>4. New(tab[t], {})
  BY DEF New
<1>5. PICK held, more : held = Held(tab[t]) \cup {} /\ more = Held(tab[t]) \cup ({} \cup {elem})
  OBVIOUS
<1>6. \/ Result(t, held)
      \/ (\A q \in Held(tab[t]) : KeyOf(q) # KeyOf(elem)) /\ Result(t, more)
  <2>1. PICK rest : rest = {}
    OBVIOUS
  <2>2. /\ elem \notin rest /\ New(tab[t], rest) /\ (\A p \in rest : KeyOf(p) # KeyOf(elem))
        /\ emplace(t, elem, rest) /\ on \in {None, t} /\ phase # "close"
        /\ held = Held(tab[t]) \cup rest /\ more = Held(tab[t]) \cup (rest \cup {elem})
    BY <2>1, <1>1, <1>3, <1>4, <1>5
  <2> QED
    BY <2>2, <1>2, EmplaceStep
<1>7. held = Contents(t) /\ more = Contents(t) \cup {elem}
  BY <1>3, <1>5
<1> QED
  BY <1>2, <1>3, <1>6, <1>7

LEMMA EmplaceNextStep ==
    ASSUME IInv, NEW t \in Tables, EmplaceNext(t)
    PROVE  Result(t, Contents(t))
<1>1. phase = "emplace" /\ on = t
  BY DEF EmplaceNext
<1>2. PICK elem \in todo : emplace(t, elem, todo \ {elem})
  BY DEF EmplaceNext
<1>3. PICK rest : rest = todo \ {elem}
  OBVIOUS
<1>4. New(tab[t], todo) /\ Contents(t) = Held(tab[t]) \cup todo
  BY <1>1 DEF IInv, Contents
<1>5. /\ todo \subseteq Pairs /\ \A p, q \in todo : KeyOf(p) = KeyOf(q) => p = q
      /\ \A i \in Filled(tab[t]) : KeyOf(tab[t].entries[i].elem) # KeyOf(elem)
  BY <1>4 DEF New
<1>6. New(tab[t], rest)
  BY <1>3, <1>4 DEF New
<1>7. ~Found(tab[t], KeyOf(elem))
  <2>1. Shape(tab[t]) /\ WellPlaced(tab[t]) /\ KeyOf(elem) \in Keys
    BY <1>1, <1>5, TableType DEF Pairs, KeyOf
  <2> QED
    BY <2>1, <1>5, ProbeHits
<1>8. Result(t, Held(tab[t]) \cup (rest \cup {elem}))
  <2>1. elem \in Pairs /\ elem \notin rest /\ \A p \in rest : KeyOf(p) # KeyOf(elem)
    BY <1>3, <1>5
  <2>2. emplace(t, elem, rest)
    BY <1>2, <1>3
  <2> QED
    BY <2>1, <2>2, <1>1, <1>6, <1>7, EmplaceStep
<1> QED
  BY <1>3, <1>4, <1>8

LEMMA EraseAtStep ==
    ASSUME IInv, Idle, NEW t \in Tables, NEW pos \in Filled(tab[t]), EraseAt(t, pos)
    PROVE  Result(t, Contents(t) \ {tab[t].entries[pos].elem})
<1>1. PICK old, new, g : old = tab[t] /\ new = Cleared(old, {pos}) /\ g = gap'
  OBVIOUS
<1>2. /\ on = None /\ phase = "idle" /\ TableInv(old, {}) /\ Shape(old) /\ WellPlaced(old)
      /\ Contents(t) = Held(old)
  BY <1>1, IdleTable
<1>3. /\ Becomes(t, new) /\ on' = t /\ phase' = "close" /\ g = [it |-> pos + 1, shift |-> 1]
      /\ UNCHANGED <<todo, carry>>
  BY <1>1 DEF EraseAt, ClosesFrom
<1>4. TableInv(new, pos..pos) /\ pos + 1 <= EndPos(new) /\ ~HasValue(new.entries[pos])
  BY <1>1, <1>2, SlotCleared
<1>5. ~AtDesired(new.entries[pos + 1]) => 1 \in 1..new.entries[pos + 1].dist
  BY <1>1, <1>2, SlotCleared
<1>6. Held(new) = Held(old) \ {old.entries[pos].elem}
  BY <1>1, <1>2, SlotCleared
<1>7. pos \in Int /\ 0 <= pos
  BY <1>1, <1>2, ElementType
<1>8. g.it = pos + 1 /\ g.shift = 1
  BY <1>3
<1>9. g \in [it : Nat, shift : Int]
  BY <1>3, <1>7
<1>10. Hole(g) = pos..pos
  BY <1>7, <1>8 DEF Hole
<1>11. TableInv(new, Hole(g)) /\ GapInv(new, g)
  <2>1. \A i \in pos..pos : i = pos
    BY <1>7
  <2>2. 1 <= pos + 1
    BY <1>7
  <2> QED
    BY <2>1, <2>2, <1>4, <1>5, <1>8, <1>10 DEF GapInv
<1>12. Result(t, Held(new))
  BY <1>1, <1>2, <1>3, <1>9, <1>11, Closing
<1> QED
  BY <1>1, <1>2, <1>6, <1>12

\* erase(key) removes the element of that key, if there is one.
LEMMA EraseKeyStep ==
    ASSUME IInv, Idle, NEW t \in Tables, NEW k \in Keys, EraseKey(t, k)
    PROVE  \/ Result(t, Contents(t))
           \/ \E e \in Contents(t) : KeyOf(e) = k /\ Result(t, Contents(t) \ {e})
<1>1. /\ on = None /\ TableInv(tab[t], {}) /\ Shape(tab[t]) /\ WellPlaced(tab[t])
      /\ (UNCHANGED tab => Becomes(t, tab[t])) /\ Contents(t) = Held(tab[t])
  BY IdleTable
<1>2. CASE UNCHANGED tab /\ Returns(t)
  <2>1. PICK old, held : old = tab[t] /\ held = Held(old)
    OBVIOUS
  <2>2. Result(t, held)
    BY <2>1, <1>1, <1>2, Settles
  <2> QED
    BY <2>1, <2>2, <1>1
<1>3. CASE find(tab[t], k) # EndPos(tab[t]) /\ EraseAt(t, find(tab[t], k))
  <2>1. PICK pos : pos = find(tab[t], k)
    OBVIOUS
  <2>2. Found(tab[t], k)
    BY <1>1, <1>3, ProbeFails
  <2>3. pos \in Filled(tab[t]) /\ KeyOf(tab[t].entries[pos].elem) = k
    BY <2>1, <2>2, <1>1, ProbeHits
  <2>4. tab[t].entries[pos].elem \in Contents(t)
    BY <2>3, <1>1 DEF Held
  <2> QED
    BY <2>1, <2>3, <2>4, <1>3, EraseAtStep
<1> QED
  BY <1>2, <1>3 DEF EraseKey

LEMMA EraseRangeStep ==
    ASSUME IInv, Idle, NEW t \in Tables, NEW first \in Filled(tab[t]),
           NEW last \in Filled(tab[t]) \cup {EndPos(tab[t])}, first < last,
           EraseRange(t, first, last)
    PROVE  \E held \in SUBSET Contents(t) : Result(t, held)
<1>1. PICK old, new : old = tab[t] /\ new = Cleared(old, Filled(old) \cap first..(last - 1))
  OBVIOUS
<1>2. /\ on = None /\ phase = "idle" /\ TableInv(old, {}) /\ Shape(old) /\ WellPlaced(old)
      /\ Contents(t) = Held(old)
  BY <1>1, IdleTable
<1>3. first \in Nat
  BY <1>1, <1>2, ElementType
<1>4. CASE last = EndPos(old)
  <2>1. Becomes(t, new) /\ Returns(t)
    BY <1>1, <1>4 DEF EraseRange
  <2>2. TableInv(new, {}) /\ Held(new) \subseteq Held(old)
    BY <1>1, <1>2, <1>3, <1>4, TailCleared
  <2>3. PICK held : held = Held(new)
    OBVIOUS
  <2>4. Result(t, held)
    BY <2>1, <2>2, <2>3, <1>2, Settles
  <2> QED
    BY <2>2, <2>3, <2>4, <1>2
<1>5. CASE last # EndPos(old)
  <2>1. last \in Filled(old)
    BY <1>1, <1>5
  <2>2. PICK shift, g : shift = Smaller(old.entries[last].dist, last - first) /\ g = gap'
    OBVIOUS
  <2>3. /\ Becomes(t, new) /\ on' = t /\ phase' = "close" /\ g = [it |-> last, shift |-> shift]
        /\ UNCHANGED <<todo, carry>>
    BY <2>2, <1>1, <1>5 DEF EraseRange, ClosesFrom
  <2>4. TableInv(new, (last - shift)..(last - 1)) /\ last <= EndPos(new) /\ shift \in Int
    <3>1. TableInv(new, (last - shift)..(last - 1))
      BY <2>1, <2>2, <1>1, <1>2, <1>3, RangeCleared
    <3>2. last <= EndPos(new)
      BY <2>1, <2>2, <1>1, <1>2, <1>3, RangeCleared
    <3>3. shift \in Int
      BY <2>1, <2>2, <1>1, <1>2, <1>3, RangeCleared
    <3> QED
      BY <3>1, <3>2, <3>3
  <2>5. ~AtDesired(new.entries[last]) => shift \in 1..new.entries[last].dist
    BY <2>1, <2>2, <1>1, <1>2, <1>3, RangeCleared
  <2>6. \A i \in (last - shift)..(last - 1) : ~HasValue(new.entries[i])
    BY <2>1, <2>2, <1>1, <1>2, <1>3, RangeCleared
  <2>7. Held(new) \subseteq Held(old)
    BY <2>1, <2>2, <1>1, <1>2, <1>3, RangeCleared
  <2>8. last \in Nat
    BY <2>1, <1>2, ElementType
  <2>9. g.it = last /\ g.shift = shift /\ Hole(g) = (last - shift)..(last - 1)
    BY <2>3 DEF Hole
  <2>10. g \in [it : Nat, shift : Int]
    BY <2>3, <2>4, <2>8
  <2>s. shift <= last
    <3>1. old.entries[last].dist \in Int /\ last - first \in Int /\ last - first <= last
      <4>1. old.entries[last].dist \in Int
        BY <2>1, <1>2, ElementType
      <4> QED
        BY <4>1, <2>8, <1>3
    <3> QED
      BY <3>1, <2>2, <2>8 DEF Smaller
  <2>11. TableInv(new, Hole(g)) /\ GapInv(new, g)
    BY <2>4, <2>5, <2>6, <2>9, <2>s DEF GapInv
  <2>12. Result(t, Held(new))
    BY <2>2, <2>3, <2>10, <2>11, <1>2, Closing
  <2> QED
    BY <2>7, <2>12, <1>2
<1> QED
  BY <1>4, <1>5

LEMMA EraseStep ==
    ASSUME IInv, NEW t \in Tables, Erase(t)
    PROVE  \E held \in SUBSET Contents(t) : Result(t, held)
<1>1. Idle
  BY DEF Erase, Ready
<1>2. ASSUME NEW k \in Keys, EraseKey(t, k) PROVE \E held \in SUBSET Contents(t) : Result(t, held)
  <2>1. CASE Result(t, Contents(t))
    BY <2>1
  <2>2. CASE \E e \in Contents(t) : KeyOf(e) = k /\ Result(t, Contents(t) \ {e})
    <3>1. PICK e \in Contents(t) : Result(t, Contents(t) \ {e})
      BY <2>2
    <3>2. Contents(t) \ {e} \in SUBSET Contents(t)
      OBVIOUS
    <3> QED
      BY <3>1, <3>2
  <2> QED
    BY <2>1, <2>2, <1>1, <1>2, EraseKeyStep
<1>3. ASSUME Becomes(t, clear(tab[t])), Returns(t)
      PROVE  \E held \in SUBSET Contents(t) : Result(t, held)
  <2>1. PICK new, held : new = clear(tab[t]) /\ held = Held(new)
    OBVIOUS
  <2>2. on = None /\ TableInv(tab[t], {})
    BY <1>1, IdleTable
  <2>3. TableInv(new, {}) /\ held = {}
    BY <2>1, <2>2, AllCleared
  <2>4. Result(t, held)
    BY <2>1, <2>2, <2>3, <1>3, Settles
  <2> QED
    BY <2>3, <2>4
<1> QED
  BY <1>1, <1>2, <1>3, EraseRangeStep DEF Erase

LEMMA SetValueStep ==
    ASSUME IInv, NEW t \in Tables, SetValue(t)
    PROVE  \E w \in Pairs : Result(t, {q \in Contents(t) : KeyOf(q) # KeyOf(w)} \cup {w})
<1>1. Idle
  BY DEF SetValue, Ready
<1>2. PICK old : old = tab[t]
  OBVIOUS
<1>3. /\ on = None /\ TableInv(old, {}) /\ Shape(old) /\ WellPlaced(old) /\ Contents(t) = Held(old)
  BY <1>1, <1>2, IdleTable
<1>4. PICK w \in Writes :
        /\ find(old, w[1]) # EndPos(old)
        /\ Becomes(t, [old EXCEPT !.entries[find(old, w[1])].elem = w])
  BY <1>2 DEF SetValue
<1>5. w \in Pairs /\ w[1] = KeyOf(w) /\ KeyOf(w) \in Keys
  BY HashAssumption DEF Pairs, KeyOf
<1>6. PICK pos, new, held :
        pos = find(old, KeyOf(w)) /\ new = WithElem(old, pos, w) /\ held = Held(new)
  OBVIOUS
<1>7. Becomes(t, new)
  BY <1>4, <1>5, <1>6 DEF WithElem
<1>8. Found(old, KeyOf(w))
  BY <1>3, <1>4, <1>5, ProbeFails
<1>9. pos \in Filled(old) /\ KeyOf(old.entries[pos].elem) = KeyOf(w)
  BY <1>3, <1>5, <1>6, <1>8, ProbeHits
<1>10. TableInv(new, {}) /\ held = {q \in Held(old) : KeyOf(q) # KeyOf(w)} \cup {w}
  BY <1>3, <1>5, <1>6, <1>9, ValueSetInv
<1>11. Result(t, held)
  BY <1>3, <1>6, <1>7, <1>10, Settles DEF SetValue
<1> QED
  BY <1>3, <1>5, <1>10, <1>11

\* A rehash of an idle table.
LEMMA IdleRehash ==
    ASSUME IInv, Idle, NEW t \in Tables, NEW old, TableInv(old, {}), NEW request \in Nat,
           NEW rest, New(old, rest), rehash(t, old, request, rest)
    PROVE  Result(t, Held(old) \cup rest)
<1>1. Shape(old) /\ Distinct(old) /\ WellPlaced(old)
  BY DEF TableInv
<1>2. Continues(t, Held(old) \cup rest)
  BY <1>1, HeldPairs, RehashStep
<1>3. PICK held : held = Held(old) \cup rest
  OBVIOUS
<1>4. Result(t, held)
  BY <1>2, <1>3, IdleTable, Continued
<1> QED
  BY <1>3, <1>4

LEMMA ResizeStep ==
    ASSUME IInv, NEW t \in Tables, Resize(t)
    PROVE  Result(t, Contents(t))
<1>1. Idle
  BY DEF Resize, Ready
<1>2. PICK old : old = tab[t]
  OBVIOUS
<1>3. /\ on = None /\ TableInv(old, {}) /\ Shape(old) /\ Contents(t) = Held(old)
      /\ (UNCHANGED tab => Becomes(t, old))
  BY <1>1, <1>2, IdleTable
<1>4. New(old, {}) /\ Held(old) \cup {} = Held(old)
  BY DEF New
<1>5. ASSUME NEW n \in Nat, rehash(t, old, n, {}) PROVE Result(t, Contents(t))
  <2>1. PICK rest : rest = {}
    OBVIOUS
  <2>2. Result(t, Held(old) \cup rest)
    BY <2>1, <1>1, <1>3, <1>4, <1>5, IdleRehash
  <2> QED
    BY <2>1, <2>2, <1>3, <1>4
<1>6. /\ BucketCount(old) \in Nat /\ old.size \in Nat
      /\ \A n \in Nat : num_buckets_for_reserve(old, n) \in Nat
  BY <1>3, BucketsType DEF Shape, BucketCount
<1>7. ASSUME NEW n \in Requests, reserve(t, n) PROVE Result(t, Contents(t))
  <2>1. n \in Nat
    BY HashAssumption
  <2>2. CASE rehash(t, old, num_buckets_for_reserve(old, n), {})
    BY <2>1, <2>2, <1>5, <1>6
  <2>3. CASE UNCHANGED tab /\ Returns(t)
    <3>1. PICK held : held = Held(old)
      OBVIOUS
    <3>2. Result(t, held)
      BY <2>3, <3>1, <1>3, Settles
    <3> QED
      BY <3>1, <3>2, <1>3
  <2> QED
    BY <2>2, <2>3, <1>2, <1>7 DEF reserve
<1>8. ASSUME shrink_to_fit(t) PROVE Result(t, Contents(t))
  <2>1. PICK n : n = Smaller(num_buckets_for_reserve(old, old.size), BucketCount(old))
    OBVIOUS
  <2>2. n \in Nat
    BY <2>1, <1>6 DEF Smaller
  <2>3. rehash(t, old, n, {})
    BY <2>1, <1>2, <1>8 DEF shrink_to_fit, rehash_for_other_container
  <2> QED
    BY <2>2, <2>3, <1>5
<1>9. ASSUME NEW load \in Loads, Becomes(t, [tab[t] EXCEPT !.load = load]), Returns(t)
      PROVE  Result(t, Contents(t))
  <2>1. PICK new, held : new = [old EXCEPT !.load = load] /\ held = Held(old)
    OBVIOUS
  <2>2. load \in AllLoads
    BY HashAssumption
  <2>3. TableInv(new, {}) /\ Held(new) = Held(old)
    BY <2>1, <2>2, <1>3, LoadSetInv
  <2>4. Becomes(t, new)
    BY <2>1, <1>2, <1>9
  <2>5. Result(t, held)
    BY <2>1, <2>3, <2>4, <1>3, <1>9, Settles
  <2> QED
    BY <2>1, <2>5, <1>3
<1>10. \A n \in Requests : rehash(t, old, n, {}) => Result(t, Contents(t))
  BY <1>5, HashAssumption
<1> QED
  BY <1>2, <1>7, <1>8, <1>9, <1>10 DEF Resize

\* Every table is put in order by a call that returns at once.
LEMMA AllSettle ==
    ASSUME IInv, Idle, NEW t \in Tables, Returns(t), tab' = [u \in Tables |-> tab'[u]],
           \A u \in Tables : TableInv(tab'[u], {})
    PROVE  IInv' /\ on' = None /\ \A u \in Tables : Contents(u)' = Held(tab'[u])
<1>1. /\ on' = None /\ phase' = "idle" /\ todo' = {} /\ carry' = NoCarry /\ gap' = NoGap
  BY DEF Returns, GoesOn
<1>2. PhaseInv'
  <2>1. /\ NoCarry \in [elem : Pairs \cup {NoElem}, pos : Nat, dist : Nat, result : Nat]
        /\ NoGap \in [it : Nat, shift : Int]
    BY DEF NoCarry, NoGap
  <2> QED
    BY <1>1, <2>1 DEF PhaseInv
<1>3. IInv'
  BY <1>1, <1>2 DEF IInv
<1> QED
  BY <1>1, <1>3, HashAssumption DEF Contents

\* What an assignment, a move or a swap does to the two tables.
ExchangeResult(t, other) ==
    \/ Result(t, Contents(other)) /\ wild' = wild /\ t \notin wild
    \/ /\ IInv' /\ Contents(t)' = Contents(other)
       /\ Contents(other)' = {} \/ Contents(other)' = Contents(t)
       /\ \A u \in Tables \ {t, other} : Contents(u)' = Contents(u)
       /\ on' = None /\ SwapsPointers(t, other)

LEMMA ExchangeStep ==
    ASSUME IInv, NEW t \in Tables, NEW other \in Tables, Exchange(t, other)
    PROVE  ExchangeResult(t, other)
<1>1. Idle /\ t # other
  BY DEF Exchange
<1>2. PICK a, b : a = tab[t] /\ b = tab[other]
  OBVIOUS
<1>3. /\ on = None /\ TableInv(a, {}) /\ TableInv(b, {})
      /\ Contents(t) = Held(a) /\ Contents(other) = Held(b)
      /\ Held(b) \subseteq Pairs
  BY <1>1, <1>2, IdleTable
<1>4. \A u \in Tables : TableInv(tab[u], {}) /\ Contents(u) = Held(tab[u])
  BY <1>1, IdleTable
<1>5. tab = [u \in Tables |-> tab[u]]
  BY DEF IInv
<1>6. CASE Swap(t, other)
  <2>1. tab' = [u \in Tables |-> IF u = t THEN b ELSE IF u = other THEN a ELSE tab[u]]
    BY <1>1, <1>2, <1>5, <1>6 DEF Swap
  <2>2. tab' = [u \in Tables |-> tab'[u]] /\ \A u \in Tables : TableInv(tab'[u], {})
    BY <2>1, <1>3, <1>4
  <2>3. IInv' /\ on' = None /\ \A u \in Tables : Contents(u)' = Held(tab'[u])
    BY <2>2, <1>1, <1>6, AllSettle DEF Swap
  <2> QED
    BY <2>1, <2>3, <1>1, <1>3, <1>4, <1>6 DEF ExchangeResult, Swap
<1>7. CASE MoveAssign(t, other)
  <2>1. PICK d, new : d = clear(a) /\ new = reset_to_empty_state(d)
    OBVIOUS
  <2>2. TableInv(new, {}) /\ Held(new) = {}
    <3>1. TableInv(d, {}) /\ d.size = 0
      BY <2>1, <1>3, AllCleared
    <3>2. d.policy \in Policies /\ d.load \in AllLoads
      BY <3>1 DEF TableInv, Shape
    <3> QED
      BY <3>1, <3>2, <2>1, ResetInv
  <2>3. tab' = [u \in Tables |-> IF u = t THEN b ELSE IF u = other THEN new ELSE tab[u]]
    BY <2>1, <1>1, <1>2, <1>5, <1>7 DEF MoveAssign
  <2>4. tab' = [u \in Tables |-> tab'[u]] /\ \A u \in Tables : TableInv(tab'[u], {})
    BY <2>2, <2>3, <1>3, <1>4
  <2>5. IInv' /\ on' = None /\ \A u \in Tables : Contents(u)' = Held(tab'[u])
    BY <2>4, <1>1, <1>7, AllSettle DEF MoveAssign
  <2> QED
    BY <2>2, <2>3, <2>5, <1>1, <1>3, <1>4, <1>7 DEF ExchangeResult, MoveAssign
<1>8. CASE CopyAssign(t, other)
  <2>1. PICK d, old, n, rest :
          /\ d = clear(a) /\ old = [d EXCEPT !.load = b.load] /\ rest = Held(b)
          /\ n = Smaller(num_buckets_for_reserve(old, b.size), BucketCount(b))
    OBVIOUS
  <2>2. b.load \in AllLoads /\ b.size \in Nat /\ BucketCount(b) \in Nat
    BY <1>3 DEF TableInv, Shape, BucketCount
  <2>3. TableInv(d, {}) /\ Filled(d) = {} /\ Held(d) = {}
    BY <2>1, <1>3, AllCleared
  <2>4. TableInv(old, {}) /\ Filled(old) = {} /\ Held(old) = {}
    BY <2>1, <2>2, <2>3, LoadSetInv
  <2>5. n \in Nat
    <3>1. num_buckets_for_reserve(old, b.size) \in Nat
      BY <2>2, <2>4, BucketsType DEF TableInv
    <3> QED
      BY <3>1, <2>1, <2>2 DEF Smaller
  <2>6. New(old, rest)
    <3>1. \A p, q \in rest : KeyOf(p) = KeyOf(q) => p = q
      BY <2>1, <1>3 DEF Held, TableInv, Distinct
    <3> QED
      BY <3>1, <2>1, <2>4, <1>3 DEF New
  <2>7. rehash(t, old, n, rest)
    BY <2>1, <1>2, <1>8 DEF CopyAssign, rehash_for_other_container
  <2>8. Result(t, Held(old) \cup rest)
    BY <2>4, <2>5, <2>6, <2>7, <1>1, IdleRehash
  <2>9. Held(old) \cup rest = Contents(other)
    BY <2>1, <2>4, <1>3
  <2> QED
    BY <2>8, <2>9, <1>8 DEF ExchangeResult, CopyAssign
<1> QED
  BY <1>6, <1>7, <1>8 DEF Exchange

-----------------------------------------------------------------------------
(* Construction.                                                           *)

\* A table for which nothing has been rehashed or emplaced yet.
LEMMA FreshInv ==
    ASSUME IInv, Idle, NEW t \in Tables, NEW load \in AllLoads, NEW fresh,
           fresh = DefaultTable(tab[t].policy, load)
    PROVE  TableInv(fresh, {}) /\ Filled(fresh) = {} /\ Held(fresh) = {}
<1>1. tab[t].policy \in Policies
  BY IdleTable DEF Shape
<1> QED
  BY <1>1, DefaultInv

LEMMA BecomesFresh ==
    ASSUME IInv, Idle, NEW t \in Tables, NEW load \in AllLoads, Returns(t),
           Becomes(t, DefaultTable(tab[t].policy, load))
    PROVE  Result(t, {}) /\ on' = None
<1>1. PICK fresh, held : fresh = DefaultTable(tab[t].policy, load) /\ held = Held(fresh)
  OBVIOUS
<1>2. TableInv(fresh, {}) /\ held = {}
  BY <1>1, FreshInv
<1>3. Result(t, held)
  BY <1>1, <1>2, IdleTable, Settles
<1> QED
  BY <1>2, <1>3 DEF Returns, GoesOn

\* A constructor that gets through has emplaced elems, or left a table without a buffer.
ConstructResult(t, elems) ==
    \/ Result(t, elems) /\ wild' = wild
    \/ Result(t, {}) /\ on' = None /\ wild' = wild \cup {t}
    \/ Undefined

LEMMA ConstructByStep ==
    ASSUME IInv, Idle, NEW t \in Tables, NEW load \in AllLoads, NEW request, NEW again \in Nat,
           NEW elems, elems \subseteq Pairs, \A p, q \in elems : KeyOf(p) = KeyOf(q) => p = q,
           ConstructBy(t, load, request, again, elems)
    PROVE  ConstructResult(t, elems)
<1>1. PICK fresh : fresh = DefaultTable(tab[t].policy, load)
  OBVIOUS
<1>2. TableInv(fresh, {}) /\ Filled(fresh) = {} /\ Held(fresh) = {}
  BY <1>1, FreshInv
<1>3. New(fresh, elems)
  BY <1>2 DEF New
<1>4. \/ rehash(t, fresh, again, elems) /\ UNCHANGED wild
      \/ Becomes(t, fresh) /\ Returns(t) /\ wild' = wild \cup {t}
      \/ Undefined
  BY <1>1 DEF ConstructBy
<1>5. ASSUME rehash(t, fresh, again, elems) PROVE Result(t, elems)
  <2>1. Result(t, Held(fresh) \cup elems)
    BY <1>2, <1>3, <1>5, IdleRehash
  <2>2. Held(fresh) \cup elems = elems
    BY <1>2
  <2> QED
    BY <2>1, <2>2
<1>6. ASSUME Becomes(t, fresh), Returns(t) PROVE Result(t, {}) /\ on' = None
  BY <1>1, <1>6, BecomesFresh
<1> QED
  BY <1>4, <1>5, <1>6 DEF ConstructResult

LEMMA ConstructStep ==
    ASSUME IInv, NEW t \in Tables, Construct(t)
    PROVE  \E elems \in Ranges \cup {{}} : ConstructResult(t, elems)
<1>1. Idle
  BY DEF Construct, Ready
<1>2. PICK load : load = max_load_factor
  OBVIOUS
<1>3. load \in AllLoads
  BY <1>2 DEF AllLoads, max_load_factor
<1>4. CASE ConstructDefault(t)
  <2>1. Result(t, {}) /\ wild' = wild
    BY <1>1, <1>2, <1>3, <1>4, BecomesFresh DEF ConstructDefault
  <2> QED
    BY <2>1 DEF ConstructResult
<1>5. CASE ConstructFilled(t)
  <2>1. PICK request \in Requests \cup {0}, elems \in Ranges \cup {{}} :
          \E again \in {0, Cardinality(elems)} : ConstructBy(t, load, request, again, elems)
    BY <1>2, <1>5 DEF ConstructFilled
  <2>2. PICK again \in {0, Cardinality(elems)} : ConstructBy(t, load, request, again, elems)
    BY <2>1
  <2>3. /\ elems \subseteq Pairs /\ Cardinality(elems) \in Nat
        /\ \A p, q \in elems : KeyOf(p) = KeyOf(q) => p = q
    <3>1. CASE elems \in Ranges
      BY <3>1, HashAssumption DEF KeyOf
    <3>2. CASE elems = {}
      BY <3>2, FS_EmptySet
    <3> QED
      BY <3>1, <3>2
  <2>4. again \in Nat
    BY <2>3
  <2> QED
    BY <2>2, <2>3, <2>4, <1>1, <1>3, ConstructByStep
<1> QED
  BY <1>4, <1>5 DEF Construct

LEMMA ConstructCopyStep ==
    ASSUME IInv, Idle, NEW t \in Tables, NEW other \in Tables, ConstructCopy(t, other)
    PROVE  ConstructResult(t, Contents(other))
<1>1. PICK b, request, elems : b = tab[other] /\ elems = Held(b)
        /\ request = Smaller(num_buckets_for_reserve(b, b.size), BucketCount(b))
  OBVIOUS
<1>2. /\ TableInv(b, {}) /\ Distinct(b) /\ elems \subseteq Pairs /\ Contents(other) = elems
      /\ b.load \in AllLoads
  BY <1>1, IdleTable DEF Shape
<1>3. \A p, q \in elems : KeyOf(p) = KeyOf(q) => p = q
  BY <1>1, <1>2 DEF Held, Distinct
<1>4. ConstructBy(t, b.load, request, 0, elems)
  BY <1>1 DEF ConstructCopy
<1>5. ConstructResult(t, elems)
  BY <1>2, <1>3, <1>4, ConstructByStep
<1> QED
  BY <1>2, <1>5

LEMMA ConstructMoveStep ==
    ASSUME IInv, Idle, NEW t \in Tables, NEW other \in Tables, t # other, ConstructMove(t, other)
    PROVE  /\ IInv' /\ on' = None
           /\ Contents(t)' = Contents(other) /\ Contents(other)' = {}
           /\ \A u \in Tables \ {t, other} : Contents(u)' = Contents(u)
<1>1. PICK load, b, fresh : /\ load = max_load_factor /\ b = tab[other]
                            /\ fresh = DefaultTable(tab[t].policy, load)
  OBVIOUS
<1>2. load \in AllLoads
  BY <1>1 DEF AllLoads, max_load_factor
<1>3. TableInv(fresh, {}) /\ Held(fresh) = {}
  BY <1>1, <1>2, FreshInv
<1>4. \A u \in Tables : TableInv(tab[u], {}) /\ Contents(u) = Held(tab[u])
  BY IdleTable
<1>5. tab = [u \in Tables |-> tab[u]]
  BY DEF IInv
<1>6. tab' = [u \in Tables |-> IF u = t THEN b ELSE IF u = other THEN fresh ELSE tab[u]]
  BY <1>1, <1>5 DEF ConstructMove
<1>7. tab' = [u \in Tables |-> tab'[u]] /\ \A u \in Tables : TableInv(tab'[u], {})
  BY <1>1, <1>3, <1>4, <1>6
<1>8. IInv' /\ on' = None /\ \A u \in Tables : Contents(u)' = Held(tab'[u])
  BY <1>7, AllSettle DEF ConstructMove
<1> QED
  BY <1>1, <1>3, <1>4, <1>6, <1>8

\* An execution that is undefined changes nothing that the model keeps track of.
LEMMA UndefinedStep ==
    ASSUME IInv, Idle, Undefined
    PROVE  IInv' /\ on' = None /\ \A u \in Tables : Contents(u)' = Contents(u)
<1>1. /\ on' = None /\ phase' = "undefined" /\ todo' = {} /\ carry' = NoCarry /\ gap' = NoGap
      /\ tab' = tab
  BY DEF Undefined
<1>2. \A u \in Tables : TableInv(tab[u], {}) /\ Contents(u) = Held(tab[u]) /\ u # None
  BY IdleTable, HashAssumption
<1>3. PhaseInv'
  <2>1. /\ NoCarry \in [elem : Pairs \cup {NoElem}, pos : Nat, dist : Nat, result : Nat]
        /\ NoGap \in [it : Nat, shift : Int]
    BY DEF NoCarry, NoGap
  <2> QED
    BY <1>1, <2>1 DEF PhaseInv
<1>4. tab = [u \in Tables |-> tab[u]]
  BY DEF IInv
<1>5. IInv'
  BY <1>1, <1>2, <1>3, <1>4 DEF IInv
<1> QED
  BY <1>1, <1>2, <1>5 DEF Contents

LEMMA UseWildStep ==
    ASSUME IInv, NEW t \in Tables, Contents(t) = {}, UseWild(t)
    PROVE  \/ Undefined
           \/ Result(t, {}) /\ on' = None /\ wild' \subseteq wild
<1>1. Idle
  BY DEF UseWild
<1>2. PICK old : old = tab[t]
  OBVIOUS
<1>3. /\ on = None /\ TableInv(old, {}) /\ Shape(old) /\ Counted(old) /\ Held(old) = {}
  BY <1>1, <1>2, IdleTable
<1>4. old.size = 0 /\ old.policy \in Policies /\ old.load \in AllLoads
  <2>1. Filled(old) = {}
    BY <1>3 DEF Held
  <2> QED
    BY <2>1, <1>3, FS_EmptySet DEF Counted, Shape
<1>5. ASSUME Becomes(t, reset_to_empty_state(tab[t])), Returns(t) PROVE Result(t, {})
  <2>1. PICK new, held : new = reset_to_empty_state(old) /\ held = Held(new)
    OBVIOUS
  <2>2. TableInv(new, {}) /\ held = {}
    BY <2>1, <1>4, ResetInv
  <2>3. Result(t, held)
    BY <2>1, <2>2, <1>2, <1>3, <1>5, Settles
  <2> QED
    BY <2>2, <2>3
<1>6. ASSUME NEW load \in Loads, Becomes(t, [tab[t] EXCEPT !.load = load]), Returns(t)
      PROVE  Result(t, {})
  <2>1. PICK new, held : new = [old EXCEPT !.load = load] /\ held = Held(old)
    OBVIOUS
  <2>2. load \in AllLoads
    BY HashAssumption
  <2>3. TableInv(new, {}) /\ Held(new) = Held(old)
    BY <2>1, <2>2, <1>3, LoadSetInv
  <2>4. Result(t, held)
    BY <2>1, <2>3, <1>2, <1>3, <1>6, Settles
  <2> QED
    BY <2>1, <2>4, <1>3
<1> QED
  BY <1>5, <1>6 DEF UseWild, Returns, GoesOn

-----------------------------------------------------------------------------
(* The invariant.                                                          *)

LEMMA InitInv == Init => IInv
<1> SUFFICES ASSUME Init PROVE IInv
  OBVIOUS
<1>1. PICK policy \in Policies : tab = [t \in Tables |-> DefaultTable(policy, <<1, 2>>)]
  BY DEF Init
<1>2. /\ on = None /\ phase = "idle" /\ todo = {} /\ carry = NoCarry /\ gap = NoGap
  BY DEF Init
<1>3. PICK load, d : load = <<1, 2>> /\ d = DefaultTable(policy, load)
  OBVIOUS
<1>4. load \in AllLoads
  BY <1>3 DEF AllLoads
<1>5. TableInv(d, {})
  BY <1>3, <1>4, DefaultInv
<1>6. tab = [t \in Tables |-> d]
  BY <1>1, <1>3
<1>7. PhaseInv
  <2>1. /\ NoCarry \in [elem : Pairs \cup {NoElem}, pos : Nat, dist : Nat, result : Nat]
        /\ NoGap \in [it : Nat, shift : Int]
    BY DEF NoCarry, NoGap
  <2> QED
    BY <1>2, <2>1 DEF PhaseInv
<1> QED
  BY <1>2, <1>5, <1>6, <1>7 DEF IInv

LEMMA NextInv ==
    ASSUME IInv, WildInv, [Next]_vars
    PROVE  IInv'
<1>1. ASSUME NEW t \in Tables, NEW held, Result(t, held) PROVE IInv'
  BY <1>1 DEF Result
<1>2. ASSUME NEW t \in Tables, Emplace(t) PROVE IInv'
  BY <1>2, EmplaceActionStep DEF Result
<1>3. ASSUME NEW t \in Tables, SetValue(t) PROVE IInv'
  BY <1>3, SetValueStep DEF Result
<1>4. ASSUME NEW t \in Tables, Erase(t) PROVE IInv'
  BY <1>4, EraseStep DEF Result
<1>5. ASSUME NEW t \in Tables, Resize(t) PROVE IInv'
  BY <1>5, ResizeStep DEF Result
<1>6. ASSUME NEW t \in Tables, NEW other \in Tables, Exchange(t, other) PROVE IInv'
  BY <1>6, ExchangeStep DEF Result, ExchangeResult
<1>7. ASSUME NEW t \in Tables, EmplaceNext(t) PROVE IInv'
  BY <1>7, EmplaceNextStep DEF Result
<1>8. ASSUME NEW t \in Tables, Shift(t) PROVE IInv'
  BY <1>8, ShiftStep DEF Result
<1>9. ASSUME NEW t \in Tables, Close(t) PROVE IInv'
  BY <1>9, GapStep DEF Result
<1>11. ASSUME NEW t \in Tables, Construct(t) PROVE IInv'
  <2>1. Idle
    BY <1>11 DEF Construct, Ready
  <2> QED
    BY <2>1, <1>1, <1>11, ConstructStep, UndefinedStep DEF ConstructResult
<1>12. ASSUME NEW t \in Tables, NEW other \in Tables, ConstructFrom(t, other) PROVE IInv'
  <2>1. Idle /\ t # other
    BY <1>12 DEF ConstructFrom, Ready
  <2>2. ASSUME ConstructCopy(t, other) PROVE IInv'
    BY <2>1, <2>2, <1>1, ConstructCopyStep, UndefinedStep DEF ConstructResult
  <2>3. ASSUME ConstructMove(t, other) PROVE IInv'
    BY <2>1, <2>3, ConstructMoveStep
  <2> QED
    BY <2>2, <2>3, <1>12 DEF ConstructFrom
<1>13. ASSUME NEW t \in Tables, UseWild(t) PROVE IInv'
  <2>1. Idle /\ Contents(t) = {}
    BY <1>13 DEF UseWild, WildInv
  <2> QED
    BY <2>1, <1>1, <1>13, UseWildStep, UndefinedStep
<1>10. CASE UNCHANGED vars
  <2>1. /\ tab' = tab /\ on' = on /\ phase' = phase /\ todo' = todo
        /\ carry' = carry /\ gap' = gap
    BY <1>10 DEF vars
  <2>2. PhaseInv'
    BY <2>1 DEF IInv, PhaseInv
  <2> QED
    BY <2>1, <2>2 DEF IInv
<1> QED
  BY <1>2, <1>3, <1>4, <1>5, <1>6, <1>7, <1>8, <1>9, <1>10,
     <1>11, <1>12, <1>13 DEF Next, Stopped

LEMMA InitWild == Init => WildInv
<1> SUFFICES ASSUME Init PROVE WildInv
  OBVIOUS
<1>1. wild = {} /\ on = None
  BY DEF Init
<1> QED
  BY <1>1 DEF WildInv

\* A step on a table that has a buffer, or is left without one.
LEMMA ResultWild ==
    ASSUME WildInv, NEW t \in Tables, NEW held, Result(t, held),
           wild' \subseteq wild \cup {t}, t \in wild' => on' = None /\ held = {}
    PROVE  WildInv'
<1>1. /\ on' \in {None, t} /\ Contents(t)' = held
      /\ \A u \in Tables \ {t} : Contents(u)' = Contents(u)
  BY DEF Result
<1> QED
  BY <1>1, HashAssumption DEF WildInv

LEMMA NextWild ==
    ASSUME IInv, WildInv, [Next]_vars
    PROVE  WildInv'
<1>1. ASSUME NEW t \in Tables, Emplace(t) \/ SetValue(t) \/ Erase(t) \/ Resize(t), UNCHANGED wild
      PROVE  WildInv'
  <2>1. t \notin wild
    BY <1>1 DEF Emplace, SetValue, Erase, Resize, Ready
  <2>2. \E held : Result(t, held)
    BY <1>1, EmplaceActionStep, SetValueStep, EraseStep, ResizeStep
  <2> QED
    BY <2>1, <2>2, <1>1, ResultWild
<1>2. ASSUME NEW t \in Tables, EmplaceNext(t) \/ Shift(t) \/ Close(t), UNCHANGED wild PROVE WildInv'
  <2>1. t \notin wild
    BY <1>2 DEF EmplaceNext, Shift, Close, WildInv
  <2>2. \E held : Result(t, held)
    BY <1>2, EmplaceNextStep, ShiftStep, GapStep
  <2> QED
    BY <2>1, <2>2, <1>2, ResultWild
<1>3. ASSUME Idle, Undefined PROVE WildInv'
  <2>1. on' = None /\ wild' = wild /\ \A u \in Tables : Contents(u)' = Contents(u)
    BY <1>3, UndefinedStep DEF Undefined
  <2> QED
    BY <2>1, HashAssumption DEF WildInv
<1>4. ASSUME NEW t \in Tables, NEW other \in Tables, Exchange(t, other) PROVE WildInv'
  <2>1. Idle /\ t # other /\ ExchangeResult(t, other)
    BY <1>4, ExchangeStep DEF Exchange
  <2>2. CASE Result(t, Contents(other)) /\ wild' = wild /\ t \notin wild
    BY <2>2, ResultWild
  <2>3. CASE /\ Contents(t)' = Contents(other)
             /\ Contents(other)' = {} \/ Contents(other)' = Contents(t)
             /\ \A u \in Tables \ {t, other} : Contents(u)' = Contents(u)
             /\ on' = None /\ SwapsPointers(t, other)
    <3>1. wild' \subseteq Tables /\ None \notin Tables
      BY <2>3, HashAssumption DEF SwapsPointers
    <3>2. ASSUME NEW u \in wild' PROVE Contents(u)' = {}
      <4>1. (CASE u = t -> other [] u = other -> t [] OTHER -> u) \in wild /\ u \in Tables
        BY <2>3 DEF SwapsPointers
      <4>2. CASE u = t
        BY <4>1, <4>2, <2>3 DEF WildInv
      <4>3. CASE u = other
        <5>1. t \in wild
          BY <4>1, <4>3, <2>1
        <5> QED
          BY <5>1, <4>3, <2>3 DEF WildInv
      <4>4. CASE u \notin {t, other}
        <5>1. u \in wild
          BY <4>1, <4>4
        <5> QED
          BY <5>1, <4>1, <4>4, <2>3 DEF WildInv
      <4> QED
        BY <4>2, <4>3, <4>4
    <3>3. \A u \in wild' : Contents(u)' = {}
      BY <3>2
    <3> QED
      BY <2>3, <3>1, <3>3 DEF WildInv
  <2> QED
    BY <2>1, <2>2, <2>3 DEF ExchangeResult
<1>5. ASSUME NEW t \in Tables, NEW elems, Ready(t), ConstructResult(t, elems) PROVE WildInv'
  <2>1. Idle /\ t \notin wild
    BY <1>5 DEF Ready
  <2>2. CASE Result(t, elems) /\ wild' = wild
    BY <2>1, <2>2, ResultWild
  <2>3. CASE Result(t, {}) /\ on' = None /\ wild' = wild \cup {t}
    <3>1. PICK held : held = {}
      OBVIOUS
    <3>2. Result(t, held)
      BY <2>3, <3>1
    <3> QED
      BY <2>3, <3>1, <3>2, ResultWild
  <2> QED
    BY <2>1, <2>2, <2>3, <1>3, <1>5 DEF ConstructResult
<1>6. ASSUME NEW t \in Tables, Construct(t) PROVE WildInv'
  BY <1>5, <1>6, ConstructStep DEF Construct
<1>7. ASSUME NEW t \in Tables, NEW other \in Tables, ConstructFrom(t, other) PROVE WildInv'
  <2>1. Idle /\ t # other /\ Ready(t)
    BY <1>7 DEF ConstructFrom, Ready
  <2>2. ASSUME ConstructCopy(t, other) PROVE WildInv'
    BY <2>1, <2>2, <1>5, ConstructCopyStep
  <2>3. ASSUME ConstructMove(t, other) PROVE WildInv'
    <3>1. /\ on' = None
          /\ Contents(t)' = Contents(other) /\ Contents(other)' = {}
          /\ \A u \in Tables \ {t, other} : Contents(u)' = Contents(u)
      BY <2>1, <2>3, ConstructMoveStep
    <3>2. wild' = wild \cup {other} \cup (IF other \in wild THEN {t} ELSE {})
      BY <2>3 DEF ConstructMove
    <3>3. t \in wild' => other \in wild
      BY <2>1, <3>2 DEF Ready
    <3> QED
      BY <3>1, <3>2, <3>3, HashAssumption DEF WildInv
  <2> QED
    BY <2>2, <2>3, <1>7 DEF ConstructFrom
<1>8. ASSUME NEW t \in Tables, UseWild(t) PROVE WildInv'
  <2>1. Idle /\ Contents(t) = {}
    BY <1>8 DEF UseWild, WildInv
  <2>2. CASE Undefined
    BY <2>1, <2>2, <1>3
  <2>3. CASE Result(t, {}) /\ on' = None /\ wild' \subseteq wild
    <3>1. PICK held : held = {}
      OBVIOUS
    <3>2. Result(t, held) /\ wild' \subseteq wild \cup {t}
      BY <2>3, <3>1
    <3> QED
      BY <2>3, <3>1, <3>2, ResultWild
  <2> QED
    BY <2>1, <2>2, <2>3, <1>8, UseWildStep
<1>9. CASE UNCHANGED vars
  BY <1>9 DEF vars, WildInv, Contents
<1> QED
  BY <1>1, <1>2, <1>4, <1>6, <1>7, <1>8, <1>9 DEF Next, Stopped

\* The invariant of every table and of every running call.
THEOREM InvCorrect == Spec => [](IInv /\ WildInv)
BY InitInv, InitWild, NextInv, NextWild, PTL DEF Spec

-----------------------------------------------------------------------------
(* The properties.                                                         *)

\* Every slot that has a value holds another element.
LEMMA HeldCount ==
    ASSUME NEW t, Shape(t), Distinct(t), Counted(t)
    PROVE  t.size = Cardinality(Held(t))
<1> DEFINE f == [i \in Filled(t) |-> t.entries[i].elem]
<1>1. \A i, j \in Filled(t) : t.entries[i].elem = t.entries[j].elem => i = j
  BY DEF Distinct
<1>2. f \in Bijection(Filled(t), Held(t))
  BY <1>1 DEF Held, Bijection, Injection, Surjection, IsInjective
<1>3. ExistsBijection(Filled(t), Held(t))
  BY <1>2 DEF ExistsBijection
<1> QED
  BY <1>3, FilledFinite, FS_Bijection DEF Counted

LEMMA Consequences == IInv /\ WildInv => Consistent
<1> SUFFICES ASSUME IInv, WildInv PROVE Consistent
  OBVIOUS
<1>1. ASSUME NEW t \in Tables, NEW old, old = tab[t]
      PROVE  Shape(old) /\ WellPlaced(old) /\ Distinct(old) /\ Counted(old)
  BY <1>1 DEF IInv, TableInv
<1>2. EveryElementIsFound
  <2> SUFFICES ASSUME NEW t \in Tables, NEW i \in Filled(tab[t])
               PROVE  /\ tab[t].entries[i].dist < tab[t].lookups
                      /\ Settled(t) => find(tab[t], KeyOf(tab[t].entries[i].elem)) = i
    BY DEF EveryElementIsFound
  <2>1. tab[t].entries[i].dist < tab[t].lookups
    BY <1>1 DEF WellPlaced
  <2>2. ASSUME Settled(t) PROVE find(tab[t], KeyOf(tab[t].entries[i].elem)) = i
    <3>1. Ordered(tab[t], {})
      BY <2>2, TableType DEF Settled
    <3> QED
      BY <3>1, <1>1, ElementFound
  <2> QED
    BY <2>1, <2>2
<1>3. SizeIsTheNumberVisited
  <2> SUFFICES ASSUME NEW t \in Tables
               PROVE  /\ DOMAIN tab[t].entries = 0..EndPos(tab[t])
                      /\ tab[t].entries[EndPos(tab[t])] = SpecialEnd
                      /\ tab[t].size = Cardinality(Held(tab[t]))
    BY DEF SizeIsTheNumberVisited
  <2>1. Shape(tab[t])
    BY <1>1
  <2>2. tab[t].size = Cardinality(Held(tab[t]))
    BY <1>1, HeldCount
  <2> QED
    BY <2>1, <2>2 DEF Shape
<1>4. StaysInBuffer
  <2>1. ASSUME phase = "shift"
        PROVE  carry.pos < EndPos(tab[on]) /\ carry.dist < tab[on].lookups
    <3>1. on \in Tables
      BY <2>1 DEF IInv, PhaseInv
    <3>2. PICK old : old = tab[on]
      OBVIOUS
    <3>3. Fits(old, carry.pos, carry.dist, carry.elem) /\ Shape(old)
      BY <2>1, <3>1, <3>2, ShiftState
    <3>4. EndPos(old) \in Nat /\ old.lookups \in Nat
      BY <3>3, EntryType
    <3> QED
      BY <3>2, <3>3, <3>4 DEF Fits
  <2>2. ASSUME phase = "close" PROVE gap.it <= EndPos(tab[on]) /\ gap.shift <= gap.it
    BY <2>2 DEF IInv, GapInv
  <2> QED
    BY <2>1, <2>2 DEF StaysInBuffer
<1> QED
  BY <1>2, <1>3, <1>4 DEF Consistent

\* Every element that a table holds is found by the probe from its home within
\* max_lookups slots, size counts what an iteration visits, and no displacement and no
\* closing of a gap passes the special entry, for every history of construction, emplace,
\* erase, rehash, copy, move and swap, until the execution is undefined because a table
\* is used whose entries_ never got a value.
THEOREM ConsistentCorrect == Spec => []Consistent
BY InvCorrect, Consequences, PTL

\* A call that only goes on keeps what all tables hold.
LEMMA KeepsContents ==
    ASSUME NEW u \in Tables, Result(u, Contents(u)), NEW t \in Tables
    PROVE  Contents(t)' = Contents(t)
BY DEF Result

LEMMA LosesStep ==
    ASSUME IInv, Next, NEW t \in Tables, NEW lost, lost = Contents(t) \ Contents(t)', lost # {}
    PROVE  /\ Idle /\ ~Emplace(t) /\ ~Resize(t)
           /\ \A k \in Keys : EraseKey(t, k) => \A p \in lost : KeyOf(p) = k
<1>1. Contents(t)' # Contents(t)
  OBVIOUS
<1>2. Idle
  <2>1. \A u \in Tables : ~EmplaceNext(u) /\ ~Shift(u) /\ ~Close(u)
    BY <1>1, EmplaceNextStep, ShiftStep, GapStep, KeepsContents
  <2>2. ~Stopped
    BY <1>1 DEF Stopped, vars, Contents
  <2> QED
    BY <2>1, <2>2 DEF Next, Emplace, SetValue, Erase, Resize, Exchange, Construct, ConstructFrom,
                UseWild, Ready
<1>3. ~Emplace(t)
  <2> SUFFICES ASSUME Emplace(t) PROVE Contents(t) \subseteq Contents(t)'
    OBVIOUS
  <2>1. \/ Result(t, Contents(t))
        \/ \E elem \in Pairs : Result(t, Contents(t) \cup {elem})
    BY EmplaceActionStep
  <2> QED
    BY <2>1 DEF Result
<1>4. ~Resize(t)
  BY <1>1, ResizeStep, KeepsContents
<1>5. ASSUME NEW k \in Keys, EraseKey(t, k), NEW p \in lost PROVE KeyOf(p) = k
  <2>1. PICK e \in Contents(t) : KeyOf(e) = k /\ Result(t, Contents(t) \ {e})
    BY <1>1, <1>2, <1>5, EraseKeyStep, KeepsContents
  <2>2. Contents(t)' = Contents(t) \ {e}
    BY <2>1 DEF Result
  <2> QED
    BY <2>1, <2>2
<1> QED
  BY <1>2, <1>3, <1>4, <1>5

\* No call loses an element that it was not told to: an element goes only when a call
\* from outside starts, which is neither an emplace nor a rehash, and erase(key) takes
\* the element of that key alone.  In particular a displacement chain that gives up half
\* way and grows the table keeps all of them.
THEOREM LosesOnlyTheErasedCorrect == Spec => LosesOnlyTheErased
<1>1. IInv /\ [Next]_vars =>
        [\A t \in Tables :
           LET lost == Contents(t) \ Contents(t)'
           IN  lost # {} =>
                 /\ Idle /\ ~Emplace(t) /\ ~Resize(t)
                 /\ \A k \in Keys : EraseKey(t, k) => \A p \in lost : KeyOf(p) = k]_vars
  BY LosesStep
<1> QED
  BY <1>1, InvCorrect, PTL DEF Spec, LosesOnlyTheErased

-----------------------------------------------------------------------------
(* The tables are maps.                                                    *)

TheMap == [t \in Tables |-> Contents(t)]

LEMMA ResultMaps ==
    ASSUME NEW t \in Tables, NEW held, Result(t, held)
    PROVE  /\ TheMap'[t] = held
           /\ \A u \in Tables \ {t} : TheMap'[u] = TheMap[u]
BY DEF TheMap, Result

LEMMA MapInit == Init => Maps!Init
<1> SUFFICES ASSUME Init PROVE Maps!Init
  OBVIOUS
<1>1. PICK policy \in Policies : tab = [t \in Tables |-> DefaultTable(policy, <<1, 2>>)]
  BY DEF Init
<1>2. PICK load : load = <<1, 2>>
  OBVIOUS
<1>3. load \in AllLoads
  BY <1>2 DEF AllLoads
<1>4. on = None /\ IInv /\ todo = {}
  BY InitInv DEF Init
<1>5. ASSUME NEW t \in Tables PROVE Contents(t) = {}
  <2>1. tab[t] = DefaultTable(policy, load)
    BY <1>1, <1>2
  <2>2. Held(tab[t]) = {}
    BY <2>1, <1>3, DefaultInv
  <2> QED
    BY <2>2, <1>4, HashAssumption DEF Contents
<1> QED
  BY <1>5 DEF Maps!Init

LEMMA MapNext ==
    ASSUME IInv, WildInv, Next
    PROVE  Maps!Next \/ TheMap' = TheMap
<1>0. \A t \in Tables : TheMap[t] = Contents(t) /\ TheMap'[t] = Contents(t)'
  BY DEF TheMap
<1>1. ASSUME NEW t \in Tables, Result(t, Contents(t)) PROVE TheMap' = TheMap
  BY <1>1, KeepsContents DEF TheMap
<1>2. ASSUME NEW t \in Tables, Emplace(t) PROVE Maps!Next \/ TheMap' = TheMap
  <2>1. CASE \E elem \in Pairs : /\ \A q \in Contents(t) : KeyOf(q) # KeyOf(elem)
                                 /\ Result(t, Contents(t) \cup {elem})
    <3>1. PICK elem \in Pairs : /\ \A q \in Contents(t) : KeyOf(q) # KeyOf(elem)
                                /\ Result(t, Contents(t) \cup {elem})
      BY <2>1
    <3>2. /\ TheMap'[t] = TheMap[t] \cup {elem} /\ elem \notin TheMap[t]
          /\ \A q \in TheMap[t] : q[1] # elem[1]
          /\ elem \in Keys \X Values
          /\ \A u \in Tables \ {t} : TheMap'[u] = TheMap[u]
      BY <3>1, <1>0, ResultMaps DEF KeyOf, Pairs
    <3>3. Maps!Insert(t) /\ Maps!OthersUnchanged({t})
      BY <3>2 DEF Maps!Insert, Maps!OthersUnchanged, TheMap
    <3> QED
      BY <3>3 DEF Maps!Next
  <2> QED
    BY <1>1, <1>2, <2>1, EmplaceActionStep
<1>3. ASSUME NEW t \in Tables, NEW w \in Pairs,
             Result(t, {q \in Contents(t) : KeyOf(q) # KeyOf(w)} \cup {w})
      PROVE  Maps!Next
  <2>1. /\ TheMap'[t] = {q \in TheMap[t] : q[1] # w[1]} \cup {w}
        /\ \A u \in Tables \ {t} : TheMap'[u] = TheMap[u]
    BY <1>0, <1>3, ResultMaps DEF KeyOf
  <2>2. Maps!OthersUnchanged({t})
    BY <2>1 DEF Maps!OthersUnchanged, TheMap
  <2>3. CASE w \in TheMap[t]
    <3>1. Maps!Erase(t)
      BY <2>1, <2>3 DEF Maps!Erase, TheMap
    <3> QED
      BY <3>1, <2>2 DEF Maps!Next
  <2>4. CASE w \notin TheMap[t]
    <3>1. Maps!Put(t)
      BY <2>1, <2>4 DEF Maps!Put, TheMap
    <3> QED
      BY <3>1, <2>2 DEF Maps!Next
  <2> QED
    BY <2>3, <2>4
<1>4. ASSUME NEW t \in Tables, NEW held \in SUBSET Contents(t), Result(t, held) PROVE Maps!Next
  <2>1. TheMap'[t] \subseteq TheMap[t] /\ \A u \in Tables \ {t} : TheMap'[u] = TheMap[u]
    BY <1>0, <1>4, ResultMaps
  <2>2. Maps!Erase(t) /\ Maps!OthersUnchanged({t})
    BY <2>1 DEF Maps!Erase, Maps!OthersUnchanged, TheMap
  <2> QED
    BY <2>2 DEF Maps!Next
<1>9. ASSUME NEW t \in Tables, NEW other \in Tables, t # other, Result(t, Contents(other))
      PROVE  Maps!Next
  <2>1. TheMap'[t] = TheMap[other] /\ \A u \in Tables \ {t} : TheMap'[u] = TheMap[u]
    BY <1>0, <1>9, ResultMaps
  <2>2. Maps!Assign(t, other)
    BY <2>1 DEF Maps!Assign, Maps!OthersUnchanged, TheMap
  <2> QED
    BY <2>2, <1>9 DEF Maps!Next
<1>10. ASSUME NEW t \in Tables, NEW other \in Tables, t # other,
              Contents(t)' = Contents(other),
              Contents(other)' = {} \/ Contents(other)' = Contents(t),
              \A u \in Tables \ {t, other} : Contents(u)' = Contents(u)
       PROVE  Maps!Next
  <2>1. /\ TheMap'[t] = TheMap[other]
        /\ TheMap'[other] = {} \/ TheMap'[other] = TheMap[t]
        /\ \A u \in Tables \ {t, other} : TheMap'[u] = TheMap[u]
    BY <1>0, <1>10
  <2>2. Maps!Move(t, other) \/ Maps!Swap(t, other)
    BY <2>1 DEF Maps!Move, Maps!Swap, Maps!OthersUnchanged, TheMap
  <2> QED
    BY <2>2, <1>10 DEF Maps!Next
<1>5. ASSUME NEW t \in Tables, NEW other \in Tables, Exchange(t, other) PROVE Maps!Next
  <2>1. ExchangeResult(t, other) /\ t # other
    BY <1>5, ExchangeStep DEF Exchange
  <2> QED
    BY <2>1, <1>9, <1>10 DEF ExchangeResult
<1>11. ASSUME Idle, Undefined PROVE TheMap' = TheMap
  BY <1>11, UndefinedStep DEF TheMap
<1>12. ASSUME NEW t \in Tables, Result(t, {}) PROVE Maps!Next
  <2>1. PICK held : held = {}
    OBVIOUS
  <2>2. held \in SUBSET Contents(t) /\ Result(t, held)
    BY <2>1, <1>12
  <2> QED
    BY <2>2, <1>4
<1>13. ASSUME NEW t \in Tables, Construct(t) PROVE Maps!Next \/ TheMap' = TheMap
  <2>1. PICK elems \in Ranges \cup {{}} : ConstructResult(t, elems)
    BY <1>13, ConstructStep
  <2>2. CASE Result(t, elems) /\ elems \in Ranges
    <3>1. TheMap'[t] = elems /\ \A u \in Tables \ {t} : TheMap'[u] = TheMap[u]
      BY <2>2, ResultMaps
    <3>2. Maps!Construct(t) /\ Maps!OthersUnchanged({t})
      BY <3>1, <2>2 DEF Maps!Construct, Maps!OthersUnchanged, TheMap
    <3> QED
      BY <3>2 DEF Maps!Next
  <2>3. CASE Result(t, elems) /\ elems = {}
    BY <2>3, <1>12
  <2>4. Idle
    BY <1>13 DEF Construct, Ready
  <2> QED
    BY <2>1, <2>2, <2>3, <2>4, <1>11, <1>12 DEF ConstructResult
<1>14. ASSUME NEW t \in Tables, NEW other \in Tables, ConstructFrom(t, other)
       PROVE  Maps!Next \/ TheMap' = TheMap
  <2>1. Idle /\ t # other
    BY <1>14 DEF ConstructFrom, Ready
  <2>2. ASSUME ConstructCopy(t, other) PROVE Maps!Next \/ TheMap' = TheMap
    BY <2>1, <2>2, <1>9, <1>11, <1>12, ConstructCopyStep DEF ConstructResult
  <2>3. ASSUME ConstructMove(t, other) PROVE Maps!Next
    BY <2>1, <2>3, <1>10, ConstructMoveStep
  <2> QED
    BY <2>2, <2>3, <1>14 DEF ConstructFrom
<1>15. ASSUME NEW t \in Tables, UseWild(t) PROVE Maps!Next \/ TheMap' = TheMap
  <2>1. Idle /\ Contents(t) = {}
    BY <1>15 DEF UseWild, WildInv
  <2> QED
    BY <2>1, <1>11, <1>12, <1>15, UseWildStep
<1>6. ASSUME NEW t \in Tables, SetValue(t) PROVE Maps!Next
  BY <1>3, <1>6, SetValueStep
<1>7. ASSUME NEW t \in Tables, Erase(t) PROVE Maps!Next
  BY <1>4, <1>7, EraseStep
<1>8. ASSUME NEW t \in Tables, Resize(t) \/ EmplaceNext(t) \/ Shift(t) \/ Close(t)
      PROVE  TheMap' = TheMap
  BY <1>1, <1>8, ResizeStep, EmplaceNextStep, ShiftStep, GapStep
<1>16. ASSUME Stopped PROVE TheMap' = TheMap
  BY <1>16 DEF Stopped, vars, TheMap, Contents
<1> QED
  BY <1>2, <1>5, <1>6, <1>7, <1>8, <1>13, <1>14, <1>15, <1>16 DEF Next

\* A table, with what a running call of it still has in its hands, is a map from keys to
\* values: emplace adds a pair whose key is new, an assignment or a copy has what the other
\* table has, a move empties it, a new table has the elements of its range, and everything
\* inside of a call is invisible.  This holds until the execution is undefined, which a
\* constructor other than the default one, or a use of what is left of a table that was
\* moved into a new one, makes it.
THEOREM ImplementsMapCorrect == Spec => ImplementsMap
<1>1. IInv /\ WildInv /\ [Next]_vars => [Maps!Next]_TheMap
  <2>1. ASSUME UNCHANGED vars PROVE TheMap' = TheMap
    BY <2>1 DEF vars, TheMap, Contents
  <2> QED
    BY <2>1, MapNext
<1>2. TheMap = [t \in Tables |-> Contents(t)]
  BY DEF TheMap
<1> QED
  BY <1>1, MapInit, InvCorrect, PTL DEF Spec, ImplementsMap, Maps!Spec, TheMap

=============================================================================
