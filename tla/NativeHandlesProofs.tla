------------------------ MODULE NativeHandlesProofs ------------------------
(***************************************************************************)
(* Proofs about NativeHandles, for any number of wrappers and any classes. *)
(* Of the operations they use SignatureAssumption and PassedAsTaken: that  *)
(* each one passes its handles as the function it calls treats them.  That *)
(* the invariant follows from this, parameter by parameter, is the point:  *)
(* arguments that share an object, rvalues, updates in place and addresses *)
(* that are used again included.                                           *)
(***************************************************************************)
EXTENDS NativeHandles, FiniteSetTheorems, FunctionTheorems, TLAPS

\* The wrappers of f that hold h, for the wrappers before, during and after a step.
HoldersIn(f, h) == {s \in Slots : f[s].handle = h}
Count(f, h) == Cardinality(HoldersIn(f, h))
Holds(f, s, h) == IF f[s].handle = h THEN 1 ELSE 0

\* What every step keeps: the types, and the count of the references.
IInv == TypeOK /\ OneReferencePerWrapper

LEMMA CountType ==
    ASSUME NEW f, NEW h
    PROVE  IsFiniteSet(HoldersIn(f, h)) /\ Count(f, h) \in Nat
<1>1. HoldersIn(f, h) \in SUBSET Slots
    BY DEF HoldersIn
<1> QED
    BY <1>1, HandleAssumption, FS_Subset, FS_CardinalityType DEF Count

\* A change of the handle of one wrapper changes two counts by one.
LEMMA SetHandle ==
    ASSUME NEW f, NEW g, NEW t \in Slots, NEW h,
           \A s \in Slots \ {t} : g[s].handle = f[s].handle
    PROVE  Count(g, h) = Count(f, h) - Holds(f, t, h) + Holds(g, t, h)
<1> DEFINE rest == {s \in Slots \ {t} : f[s].handle = h}
<1>1. IsFiniteSet(rest) /\ Cardinality(rest) \in Nat
    <2>1. rest \in SUBSET Slots
        OBVIOUS
    <2> QED
        BY <2>1, HandleAssumption, FS_Subset, FS_CardinalityType
<1>2. t \notin rest
    OBVIOUS
<1>3. Cardinality(rest \cup {t}) = Cardinality(rest) + 1
    BY <1>1, <1>2, FS_AddElement
<1>4. Count(f, h) = Cardinality(rest) + Holds(f, t, h)
    <2>1. HoldersIn(f, h) = IF f[t].handle = h THEN rest \cup {t} ELSE rest
        BY DEF HoldersIn
    <2> QED
        BY <1>1, <1>3, <2>1 DEF Count, Holds
<1>5. Count(g, h) = Cardinality(rest) + Holds(g, t, h)
    <2>1. HoldersIn(g, h) = IF g[t].handle = h THEN rest \cup {t} ELSE rest
        BY DEF HoldersIn
    <2> QED
        BY <1>1, <1>3, <2>1 DEF Count, Holds
<1> HIDE DEF rest
<1>6. CASE f[t].handle = h
    BY <1>1, <1>4, <1>5, <1>6 DEF Holds
<1>7. CASE f[t].handle # h
    BY <1>1, <1>4, <1>5, <1>7 DEF Holds
<1> QED
    BY <1>6, <1>7

\* The invariant in terms of the counts.
LEMMA InCounts ==
    OneReferencePerWrapper <=> \A n \in Natives \ miscounted : refs[n] = Count(slot, n)
BY DEF OneReferencePerWrapper, Holders, Count, HoldersIn

LEMMA InCountsPrime ==
    OneReferencePerWrapper' <=> \A n \in Natives \ miscounted' : refs'[n] = Count(slot', n)
BY DEF OneReferencePerWrapper, Holders, Count, HoldersIn

\* What a step has to show of the counts.
LEMMA KeepsInvariant ==
    ASSUME slot' \in [Slots -> Wrappers],
           refs' \in [Natives -> Int],
           miscounted' \subseteq Natives,
           \A n \in Natives \ miscounted' : refs'[n] = Count(slot', n)
    PROVE  IInv'
<1>1. OneReferencePerWrapper'
    BY InCountsPrime
<1> QED
    BY <1>1 DEF IInv, TypeOK

\* A step that changes the wrappers s and t at most, and miscounts some objects.
LEMMA TwoWrappers ==
    ASSUME IInv, NEW s \in Slots, NEW t \in Slots, s # t,
           miscounted \subseteq miscounted', miscounted' \subseteq Natives,
           slot' \in [Slots -> Wrappers],
           \A u \in Slots \ {s, t} : slot'[u] = slot[u],
           refs' \in [Natives -> Int],
           \A n \in Natives \ miscounted' :
              refs'[n] = refs[n] - Holds(slot, s, n) + Holds(slot', s, n)
                                 - Holds(slot, t, n) + Holds(slot', t, n)
    PROVE  IInv'
<1> DEFINE between == [slot EXCEPT ![s] = slot'[s]]
<1>1. slot \in [Slots -> Wrappers]
    BY DEF IInv, TypeOK
<1>2. /\ \A u \in Slots \ {s} : between[u].handle = slot[u].handle
      /\ between[s].handle = slot'[s].handle
      /\ \A u \in Slots \ {t} : slot'[u].handle = between[u].handle
      /\ between[t].handle = slot[t].handle
    BY <1>1
<1> HIDE DEF between
<1>3. ASSUME NEW n \in Natives \ miscounted'
      PROVE  refs'[n] = Count(slot', n)
    <2>1. Count(between, n) = Count(slot, n) - Holds(slot, s, n) + Holds(between, s, n)
        BY <1>2, SetHandle
    <2>2. Count(slot', n) = Count(between, n) - Holds(between, t, n) + Holds(slot', t, n)
        BY <1>2, SetHandle
    <2>3. refs[n] = Count(slot, n)
        BY InCounts DEF IInv
    <2>4. Count(slot, n) \in Nat /\ Count(between, n) \in Nat /\ Count(slot', n) \in Nat
        BY CountType
    <2>5. \A f, u : Holds(f, u, n) \in Nat
        BY DEF Holds
    <2>6. refs'[n] = refs[n] - Holds(slot, s, n) + Holds(slot', s, n)
                             - Holds(slot, t, n) + Holds(slot', t, n)
        OBVIOUS
    <2>7. Holds(between, s, n) = Holds(slot', s, n) /\ Holds(between, t, n) = Holds(slot, t, n)
        BY <1>2 DEF Holds
    <2> QED
        BY <2>1, <2>2, <2>3, <2>4, <2>5, <2>6, <2>7
<1> QED
    BY <1>3, KeepsInvariant

\* A step that changes the wrapper t only.
LEMMA OneWrapper ==
    ASSUME IInv, NEW t \in Slots,
           miscounted \subseteq miscounted', miscounted' \subseteq Natives,
           slot' \in [Slots -> Wrappers],
           \A u \in Slots \ {t} : slot'[u] = slot[u],
           refs' \in [Natives -> Int],
           \A n \in Natives \ miscounted' :
              refs'[n] = refs[n] - Holds(slot, t, n) + Holds(slot', t, n)
    PROVE  IInv'
<1>1. ASSUME NEW n \in Natives \ miscounted'
      PROVE  refs'[n] = Count(slot', n)
    <2>1. Count(slot', n) = Count(slot, n) - Holds(slot, t, n) + Holds(slot', t, n)
        <3>1. \A u \in Slots \ {t} : slot'[u].handle = slot[u].handle
            OBVIOUS
        <3> QED
            BY <3>1, SetHandle
    <2>2. refs[n] = Count(slot, n)
        BY InCounts DEF IInv
    <2>3. /\ Count(slot, n) \in Nat
          /\ Holds(slot, t, n) \in Nat /\ Holds(slot', t, n) \in Nat
        BY CountType DEF Holds
    <2>4. refs'[n] = refs[n] - Holds(slot, t, n) + Holds(slot', t, n)
        OBVIOUS
    <2> QED
        BY <2>1, <2>2, <2>3, <2>4
<1> QED
    BY <1>1, KeepsInvariant

----------------------------------------------------------------------------
(* The special members.                                                    *)

LEMMA ReleasedCount ==
    ASSUME NEW r \in [Natives -> Int], NEW h \in Natives \cup {Null}
    PROVE  /\ Released(r, h) \in [Natives -> Int]
           /\ \A n \in Natives : Released(r, h)[n] = r[n] - (IF h = n THEN 1 ELSE 0)
BY HandleAssumption DEF Released

LEMMA AcquiredCount ==
    ASSUME NEW r \in [Natives -> Int], NEW h \in Natives \cup {Null}
    PROVE  /\ Acquired(r, h) \in [Natives -> Int]
           /\ \A n \in Natives : Acquired(r, h)[n] = r[n] + (IF h = n THEN 1 ELSE 0)
BY HandleAssumption DEF Acquired


LEMMA DestroyStep ==
    ASSUME IInv, NEW s \in Slots, Destroy(s)
    PROVE  IInv'
<1> USE DEF IInv, TypeOK, Wrappers
<1>1. /\ slot' = [slot EXCEPT ![s] = Free] /\ miscounted' = miscounted
      /\ refs' = Released(refs, slot[s].handle)
    BY DEF Destroy
<1>2. \A n \in Natives : refs'[n] = refs[n] - Holds(slot, s, n)
    BY <1>1, ReleasedCount DEF Holds
<1>3. \A n \in Natives : Holds(slot', s, n) = 0
    BY <1>1, HandleAssumption DEF Free, Holds
<1>4. \A n \in Natives : refs'[n] = refs[n] - Holds(slot, s, n) + Holds(slot', s, n)
    BY <1>1, <1>2, <1>3, ReleasedCount DEF Holds
<1>5. refs' \in [Natives -> Int]
    BY <1>1, ReleasedCount
<1>6. slot' \in [Slots -> Wrappers] /\ \A u \in Slots \ {s} : slot'[u] = slot[u]
    BY <1>1 DEF Free
<1> QED
    BY <1>1, <1>4, <1>5, <1>6, OneWrapper

LEMMA CopyConstructStep ==
    ASSUME IInv, NEW s \in Slots, NEW t \in Slots, CopyConstruct(s, t)
    PROVE  IInv'
<1> USE DEF IInv, TypeOK, Wrappers
<1>1. /\ slot[t] = Free /\ miscounted' = miscounted
      /\ slot' = [slot EXCEPT ![t] = slot[s]] /\ refs' = Acquired(refs, slot[s].handle)
    BY DEF CopyConstruct
<1>2. \A n \in Natives : refs'[n] = refs[n] + Holds(slot', t, n)
    BY <1>1, AcquiredCount DEF Holds
<1>3. \A n \in Natives : Holds(slot, t, n) = 0
    BY <1>1, HandleAssumption DEF Free, Holds
<1>4. \A n \in Natives : refs'[n] = refs[n] - Holds(slot, t, n) + Holds(slot', t, n)
    BY <1>2, <1>3 DEF Holds
<1>5. refs' \in [Natives -> Int]
    BY <1>1, AcquiredCount
<1>6. slot' \in [Slots -> Wrappers] /\ \A u \in Slots \ {t} : slot'[u] = slot[u]
    BY <1>1
<1> QED
    BY <1>1, <1>4, <1>5, <1>6, OneWrapper

\* A handle that is moved stays counted.
LEMMA MoveConstructStep ==
    ASSUME IInv, NEW s \in Slots, NEW t \in Slots, MoveConstruct(s, t)
    PROVE  IInv'
<1> USE DEF IInv, TypeOK, Wrappers
<1>1. /\ s # t /\ slot[t] = Free /\ miscounted' = miscounted /\ refs' = refs
      /\ slot' = [slot EXCEPT ![t] = slot[s], ![s].handle = Null]
    BY DEF MoveConstruct, Usable, Free
<1>2. /\ slot' \in [Slots -> Wrappers]
      /\ slot'[t] = slot[s] /\ slot'[s].handle = Null
      /\ \A u \in Slots \ {s, t} : slot'[u] = slot[u]
    BY <1>1
<1>3. \A n \in Natives : /\ Holds(slot, t, n) = 0 /\ Holds(slot', s, n) = 0
                         /\ Holds(slot', t, n) = Holds(slot, s, n)
    BY <1>1, <1>2, HandleAssumption DEF Free, Holds
<1>4. \A n \in Natives \ miscounted' :
         refs'[n] = refs[n] - Holds(slot, s, n) + Holds(slot', s, n)
                            - Holds(slot, t, n) + Holds(slot', t, n)
    BY <1>1, <1>3 DEF Holds
<1>5. /\ refs' \in [Natives -> Int]
      /\ miscounted \subseteq miscounted' /\ miscounted' \subseteq Natives
    BY <1>1
<1> HIDE DEF IInv, TypeOK, Wrappers
<1> QED
    BY <1>1, <1>2, <1>4, <1>5, TwoWrappers

LEMMA CopyAssignStep ==
    ASSUME IInv, NEW s \in Slots, NEW t \in Slots, CopyAssign(s, t)
    PROVE  IInv'
<1> USE DEF IInv, TypeOK, Wrappers
<1>1. /\ slot' = [slot EXCEPT ![t].handle = slot[s].handle] /\ miscounted' = miscounted
      /\ refs' = Acquired(Released(refs, slot[t].handle), slot[s].handle)
    BY DEF CopyAssign
<1>2. /\ slot' \in [Slots -> Wrappers] /\ slot'[t].handle = slot[s].handle
      /\ \A u \in Slots \ {t} : slot'[u] = slot[u]
    BY <1>1
<1>3. /\ Released(refs, slot[t].handle) \in [Natives -> Int]
      /\ \A n \in Natives : Released(refs, slot[t].handle)[n] = refs[n] - Holds(slot, t, n)
    BY ReleasedCount DEF Holds
<1>4. /\ refs' \in [Natives -> Int]
      /\ \A n \in Natives : refs'[n] = Released(refs, slot[t].handle)[n] + Holds(slot', t, n)
    BY <1>1, <1>2, <1>3, AcquiredCount DEF Holds
<1>5. \A n \in Natives : refs'[n] = refs[n] - Holds(slot, t, n) + Holds(slot', t, n)
    <2> TAKE n \in Natives
    <2>1. refs[n] \in Int /\ Holds(slot, t, n) \in Nat /\ Holds(slot', t, n) \in Nat
        BY DEF Holds
    <2> QED
        BY <1>3, <1>4, <2>1
<1> QED
    BY <1>1, <1>2, <1>4, <1>5, OneWrapper

\* The handle of the source replaces that of the target, whose object is given
\* up; or, if they are one wrapper, that wrapper is left empty.
LEMMA ReplaceStep ==
    ASSUME IInv, NEW s \in Slots, NEW t \in Slots, miscounted' = miscounted,
           slot' = [slot EXCEPT ![t].handle = slot[s].handle, ![s].handle = Null],
           refs' = Released(refs, slot[t].handle)
    PROVE  IInv'
<1> USE DEF IInv, TypeOK, Wrappers
<1>1. /\ refs' \in [Natives -> Int]
      /\ \A n \in Natives : refs'[n] = refs[n] - Holds(slot, t, n)
    BY ReleasedCount DEF Holds
<1>2. CASE s # t
    <2>1. /\ slot' \in [Slots -> Wrappers]
          /\ slot'[t].handle = slot[s].handle /\ slot'[s].handle = Null
          /\ \A u \in Slots \ {s, t} : slot'[u] = slot[u]
        BY <1>2
    <2>2. \A n \in Natives : Holds(slot', s, n) = 0 /\ Holds(slot', t, n) = Holds(slot, s, n)
        BY <2>1, HandleAssumption DEF Holds
    <2>3. \A n \in Natives \ miscounted' :
             refs'[n] = refs[n] - Holds(slot, s, n) + Holds(slot', s, n)
                                - Holds(slot, t, n) + Holds(slot', t, n)
        BY <1>1, <2>2 DEF Holds
    <2>4. miscounted \subseteq miscounted' /\ miscounted' \subseteq Natives
        OBVIOUS
    <2> HIDE DEF IInv, TypeOK, Wrappers
    <2> QED
        BY <1>1, <1>2, <2>1, <2>3, <2>4, TwoWrappers
<1>3. CASE s = t
    <2>1. /\ slot' \in [Slots -> Wrappers] /\ slot'[t].handle = Null
          /\ \A u \in Slots \ {t} : slot'[u] = slot[u]
        BY <1>3
    <2>2. \A n \in Natives : Holds(slot', t, n) = 0
        BY <2>1, HandleAssumption DEF Holds
    <2>3. \A n \in Natives : refs'[n] = refs[n] - Holds(slot, t, n) + Holds(slot', t, n)
        BY <1>1, <2>2 DEF Holds
    <2> QED
        BY <1>1, <2>1, <2>3, OneWrapper
<1> QED
    BY <1>2, <1>3

\* The handles of the two wrappers are swapped.
LEMMA SwapStep ==
    ASSUME IInv, NEW s \in Slots, NEW t \in Slots, miscounted' = miscounted, refs' = refs,
           slot' = [slot EXCEPT ![t].handle = slot[s].handle, ![s].handle = slot[t].handle]
    PROVE  IInv'
<1> USE DEF IInv, TypeOK, Wrappers
<1>1. CASE s # t
    <2>1. /\ slot' \in [Slots -> Wrappers]
          /\ slot'[t].handle = slot[s].handle /\ slot'[s].handle = slot[t].handle
          /\ \A u \in Slots \ {s, t} : slot'[u] = slot[u]
        BY <1>1
    <2>2. \A n \in Natives \ miscounted' :
             refs'[n] = refs[n] - Holds(slot, s, n) + Holds(slot', s, n)
                                - Holds(slot, t, n) + Holds(slot', t, n)
        <3> TAKE n \in Natives \ miscounted'
        <3>1. Holds(slot', s, n) = Holds(slot, t, n) /\ Holds(slot', t, n) = Holds(slot, s, n)
            BY <2>1 DEF Holds
        <3>2. refs[n] \in Int /\ Holds(slot, s, n) \in Nat /\ Holds(slot, t, n) \in Nat
            BY DEF Holds
        <3> QED
            BY <3>1, <3>2
    <2>3. /\ refs' \in [Natives -> Int]
          /\ miscounted \subseteq miscounted' /\ miscounted' \subseteq Natives
        OBVIOUS
    <2> HIDE DEF IInv, TypeOK, Wrappers
    <2> QED
        BY <1>1, <2>1, <2>2, <2>3, TwoWrappers
<1>2. CASE s = t
    <2>1. slot' = slot
        BY <1>2
    <2>2. \A n \in Natives \ miscounted' : refs'[n] = Count(slot', n)
        BY <2>1, InCounts
    <2> QED
        BY <2>1, <2>2, KeepsInvariant
<1> QED
    BY <1>1, <1>2

LEMMA MoveAssignStep ==
    ASSUME IInv, NEW s \in Slots, NEW t \in Slots, MoveAssign(s, t)
    PROVE  IInv'
<1>1. miscounted' = miscounted
    BY DEF MoveAssign
<1>2. \/ /\ slot' = [slot EXCEPT ![t].handle = slot[s].handle, ![s].handle = Null]
         /\ refs' = Released(refs, slot[t].handle)
      \/ /\ slot' = [slot EXCEPT ![t].handle = slot[s].handle, ![s].handle = slot[t].handle]
         /\ refs' = refs
    BY DEF MoveAssign
<1> QED
    BY <1>1, <1>2, ReplaceStep, SwapStep

\* The objects that a defective member touches, and only those, are miscounted
\* from then on.
LEMMA MiscountStep ==
    ASSUME IInv, NEW H, Miscount(H),
           slot' \in [Slots -> Wrappers], refs' \in [Natives -> Int],
           \A n \in Natives \ H :
              refs'[n] = refs[n] /\ \A u \in Slots : slot'[u].handle = n <=> slot[u].handle = n
    PROVE  IInv'
<1>1. /\ miscounted' = miscounted \cup (H \cap Natives)
      /\ miscounted \subseteq Natives
    BY DEF Miscount, IInv, TypeOK
<1>2. ASSUME NEW n \in Natives \ miscounted'
      PROVE  refs'[n] = Count(slot', n)
    <2>1. n \in Natives \ H /\ n \notin miscounted
        BY <1>1
    <2>2. \A u \in Slots : slot'[u].handle = n <=> slot[u].handle = n
        BY <2>1
    <2>3. HoldersIn(slot', n) = HoldersIn(slot, n)
        BY <2>2 DEF HoldersIn
    <2>4. refs[n] = Count(slot, n)
        BY <2>1, InCounts DEF IInv
    <2> QED
        BY <2>1, <2>3, <2>4 DEF Count
<1> QED
    BY <1>1, <1>2, KeepsInvariant

LEMMA DefectiveStep ==
    ASSUME IInv, NEW s \in Slots, NEW t \in Slots,
           \/ CopyOfFreed(s, t) \/ SelfMove(s) \/ ShallowAssign(s, t)
           \/ ShallowMove(s, t) \/ Overwrite(s, t)
    PROVE  IInv'
<1> USE DEF IInv, TypeOK, Wrappers
<1>1. CASE CopyOfFreed(s, t)
    <2>1. Miscount({slot[t].handle}) /\ slot' = slot /\ refs' = Released(refs, slot[t].handle)
        BY <1>1 DEF CopyOfFreed
    <2> QED
        BY <2>1, ReleasedCount, MiscountStep
<1>2. CASE SelfMove(s)
    <2>1. Miscount({slot[s].handle}) /\ slot' = slot /\ refs' = Released(refs, slot[s].handle)
        BY <1>2 DEF SelfMove
    <2> QED
        BY <2>1, ReleasedCount, MiscountStep
<1>3. CASE ShallowAssign(s, t)
    <2>1. /\ Miscount({slot[s].handle, slot[t].handle}) /\ refs' = refs
          /\ slot' = [slot EXCEPT ![t].handle = slot[s].handle]
        BY <1>3 DEF ShallowAssign
    <2>2. slot' \in [Slots -> Wrappers] /\ slot'[t].handle = slot[s].handle
        BY <2>1
    <2>3. \A u \in Slots \ {t} : slot'[u] = slot[u]
        BY <2>1
    <2> QED
        BY <2>1, <2>2, <2>3, MiscountStep
<1>4. CASE ShallowMove(s, t)
    <2>1. /\ Miscount({slot[s].handle}) /\ refs' = refs /\ slot[t] = Free
          /\ slot' = [slot EXCEPT ![t] = slot[s]]
        BY <1>4 DEF ShallowMove
    <2>2. slot' \in [Slots -> Wrappers] /\ slot'[t] = slot[s] /\ slot[t].handle = Null
        BY <2>1 DEF Free
    <2>3. \A u \in Slots \ {t} : slot'[u] = slot[u]
        BY <2>1
    <2> QED
        BY <2>1, <2>2, <2>3, HandleAssumption, MiscountStep
<1>5. CASE Overwrite(s, t)
    <2>1. /\ Miscount({slot[t].handle}) /\ refs' = refs
          /\ slot' = [slot EXCEPT ![t].handle = slot[s].handle, ![s].handle = Null]
        BY <1>5 DEF Overwrite
    <2>2. CASE s = t
        <3>1. slot' \in [Slots -> Wrappers] /\ slot'[t].handle = Null
            BY <2>1, <2>2
        <3>2. \A u \in Slots \ {t} : slot'[u] = slot[u]
            BY <2>1, <2>2
        <3> QED
            BY <2>1, <2>2, <3>1, <3>2, HandleAssumption, MiscountStep
    <2>3. CASE s # t
        \* The handle moves from s to t: as a swap, but the old handle of t is lost.
        <3>1. /\ slot' \in [Slots -> Wrappers] /\ slot'[t].handle = slot[s].handle
              /\ slot'[s].handle = Null
            BY <2>1, <2>3
        <3>2. \A u \in Slots \ {s, t} : slot'[u] = slot[u]
            BY <2>1
        <3>3. miscounted' = miscounted \cup ({slot[t].handle} \cap Natives)
            BY <2>1 DEF Miscount
        <3>4. ASSUME NEW n \in Natives \ miscounted'
              PROVE  refs'[n] = refs[n] - Holds(slot, s, n) + Holds(slot', s, n)
                                        - Holds(slot, t, n) + Holds(slot', t, n)
            <4>1. slot[t].handle # n
                BY <3>3
            <4>2. /\ Holds(slot, t, n) = 0 /\ Holds(slot', s, n) = 0
                  /\ Holds(slot', t, n) = Holds(slot, s, n)
                BY <3>1, <4>1, HandleAssumption DEF Holds
            <4>3. refs[n] \in Int /\ refs'[n] = refs[n] /\ Holds(slot, s, n) \in Nat
                BY <2>1 DEF Holds
            <4> QED
                BY <4>2, <4>3
        <3>5. /\ refs' \in [Natives -> Int]
              /\ miscounted \subseteq miscounted' /\ miscounted' \subseteq Natives
            BY <2>1, <3>3
        <3> HIDE DEF IInv, TypeOK, Wrappers
        <3> QED
            BY <2>3, <3>1, <3>2, <3>4, <3>5, TwoWrappers
    <2> QED
        BY <2>2, <2>3
<1> QED
    BY <1>1, <1>2, <1>3, <1>4, <1>5

\* A constructor that throws between its calls leaves a resource without wrapper.
LEMMA ConstructorThrowsStep ==
    ASSUME IInv, NEW sig \in Signatures, NEW arg, ConstructorThrows(sig, arg)
    PROVE  IInv'
<1>1. PICK new \in Natives : /\ refs' = [refs EXCEPT ![new] = 1]
                             /\ Miscount({new}) /\ slot' = slot
    BY DEF ConstructorThrows
<1> QED
    BY <1>1, MiscountStep DEF IInv, TypeOK

----------------------------------------------------------------------------
(* The operations.                                                         *)

\* The arguments that a call changes: the rvalues and the one updated in place.
Changing(sig, moved) == moved \cup Updated(sig)
\* Those of them that hold n.
Spent(sig, arg, moved, n) == {i \in Changing(sig, moved) : slot[arg[i]].handle = n}
\* The wrappers among them that hold n.
Givers(sig, arg, moved, n) ==
    {s \in Slots : slot[s].handle = n /\ \E i \in Changing(sig, moved) : arg[i] = s}

\* What a call may be given, see Call.
Arranged(sig, arg, moved) ==
    /\ \A i \in DOMAIN Params(sig) : arg[i] \in Slots
    /\ moved \subseteq DOMAIN Params(sig)
    /\ \A i \in moved : Mode(sig, i) = "release"
    /\ \A i \in Changing(sig, moved), j \in DOMAIN Params(sig) : i # j => arg[i] # arg[j]

\* A call that passes its handles as they are treated costs n one reference for
\* each argument that it changes, and nothing for the others: what is copied for
\* them is taken.
LEMMA NetCost ==
    ASSUME NEW sig \in Signatures, NEW kept, NEW arg, NEW moved, NEW n,
           Arranged(sig, arg, moved),
           \A i \in DOMAIN Params(sig) : i \in kept <=> Mode(sig, i) = "native"
    PROVE  /\ Cardinality(Made(sig, arg, moved, n)) \in Nat
           /\ Cardinality(Spent(sig, arg, moved, n)) \in Nat
           /\ Cardinality(Taken(sig, kept, arg, n))
                = Cardinality(Made(sig, arg, moved, n)) + Cardinality(Spent(sig, arg, moved, n))
<1> DEFINE P == DOMAIN Params(sig)
           M == Made(sig, arg, moved, n)
           S == Spent(sig, arg, moved, n)
           T == Taken(sig, kept, arg, n)
<1>1. Changing(sig, moved) \subseteq P
    BY DEF Changing, Updated, Arranged
<1>2. ASSUME NEW i \in P
      PROVE  /\ i \notin kept <=> \/ Copied(Mode(sig, i), i \in moved)
                                \/ i \in Changing(sig, moved)
             /\ ~(Copied(Mode(sig, i), i \in moved) /\ i \in Changing(sig, moved))
    <2>1. Mode(sig, i) \in {"native", "copy", "release", "update"}
        BY SignatureAssumption
    <2>2. i \in moved => Mode(sig, i) = "release"
        BY DEF Arranged
    <2>3. i \in Updated(sig) <=> Mode(sig, i) = "update"
        BY DEF Updated
    <2>4. i \in kept <=> Mode(sig, i) = "native"
        OBVIOUS
    <2> QED
        BY <2>1, <2>2, <2>3, <2>4 DEF Copied, Changing
<1>3. T = M \cup S /\ M \cap S = {}
    BY <1>1, <1>2 DEF Made, Taken, Spent
<1>4. M \in SUBSET P /\ S \in SUBSET P
    BY <1>1 DEF Made, Spent
<1>5. IsFiniteSet(P)
    BY SignatureAssumption
<1> HIDE DEF P, M, S, T
<1>6. IsFiniteSet(M) /\ IsFiniteSet(S)
    BY <1>4, <1>5, FS_Subset
<1>7. Cardinality(M) \in Nat /\ Cardinality(S) \in Nat
    BY <1>6, FS_CardinalityType
<1>8. Cardinality(T) = Cardinality(M) + Cardinality(S)
    <2>1. Cardinality(M \cup S) = Cardinality(M) + Cardinality(S) - Cardinality(M \cap S)
        BY <1>6, FS_Union
    <2>2. Cardinality(M \cap S) = 0
        BY <1>3, FS_EmptySet
    <2> QED
        BY <1>3, <1>7, <2>1, <2>2
<1> QED
    BY <1>7, <1>8 DEF M, S, T

\* No two of those arguments are the same wrapper.
LEMMA SpentCount ==
    ASSUME NEW sig \in Signatures, NEW arg, NEW moved, NEW n, Arranged(sig, arg, moved)
    PROVE  /\ IsFiniteSet(Givers(sig, arg, moved, n))
           /\ Cardinality(Givers(sig, arg, moved, n)) = Cardinality(Spent(sig, arg, moved, n))
<1> DEFINE S == Spent(sig, arg, moved, n)
           T == Givers(sig, arg, moved, n)
           f == [i \in S |-> arg[i]]
<1>1. S = {i \in Changing(sig, moved) : slot[arg[i]].handle = n}
    BY DEF Spent
<1>2. Changing(sig, moved) \subseteq DOMAIN Params(sig)
    BY DEF Changing, Updated, Arranged
<1>3. IsFiniteSet(S)
    <2>1. S \in SUBSET DOMAIN Params(sig)
        BY <1>1, <1>2
    <2>2. IsFiniteSet(DOMAIN Params(sig))
        BY SignatureAssumption
    <2> QED
        BY <2>1, <2>2, FS_Subset
<1>4. f \in [S -> T]
    BY <1>1, <1>2 DEF Givers, Arranged
<1>5. \A i, j \in S : f[i] = f[j] => i = j
    BY <1>1, <1>2 DEF Arranged
<1>6. \A s \in T : \E i \in S : f[i] = s
    BY <1>1 DEF Givers
<1> HIDE DEF S, T, f
<1>7. f \in Bijection(S, T)
    BY <1>4, <1>5, <1>6, Fun_IsBij
<1>8. ExistsBijection(S, T)
    BY <1>7, Fun_ExistsBij
<1>9. IsFiniteSet(T) /\ Cardinality(T) = Cardinality(S)
    BY <1>3, <1>8, FS_Bijection
<1> QED
    BY <1>9 DEF S, T

\* A call leaves the wrappers that it does not change as they were.
LEMMA RemainingWrappers ==
    ASSUME IInv, NEW sig \in Signatures, NEW arg, NEW moved, NEW new \in Natives,
           Arranged(sig, arg, moved)
    PROVE  LET remaining == Remaining(sig, arg, moved, new)
           IN  /\ remaining \in [Slots -> Wrappers]
               /\ \A i \in moved : remaining[arg[i]].handle = Null
               /\ \A i \in Updated(sig) : remaining[arg[i]].handle = new
               /\ \A s \in Slots : (\A i \in Changing(sig, moved) : arg[i] # s)
                                    => remaining[s].handle = slot[s].handle
<1> DEFINE changing == moved \cup Updated(sig)
           at(s) == {i \in DOMAIN Params(sig) : arg[i] = s}
           decides(s) == CHOOSE i \in at(s) : i \in changing \/ at(s) \cap changing = {}
           left(s, i) == CASE Mode(sig, i) = "update" -> new
                           [] Mode(sig, i) = "release" /\ i \in moved -> Null
                           [] OTHER -> slot[s].handle
           remaining == Remaining(sig, arg, moved, new)
<1>1. remaining = [s \in Slots |-> IF at(s) = {} THEN slot[s]
                              ELSE Wrapper(slot[s].class, left(s, decides(s)))]
    BY DEF Remaining, Left
<1>2. ASSUME NEW s \in Slots, at(s) # {}
      PROVE  /\ decides(s) \in at(s)
             /\ decides(s) \in changing \/ at(s) \cap changing = {}
    <2>1. \E i \in at(s) : i \in changing \/ at(s) \cap changing = {}
        BY <1>2
    <2> QED
        BY <2>1
<1>3. changing \subseteq DOMAIN Params(sig) /\ changing = Changing(sig, moved)
    BY DEF Changing, Updated, Arranged
<1>4. ASSUME NEW i \in changing
      PROVE  arg[i] \in Slots /\ at(arg[i]) # {} /\ decides(arg[i]) = i
    <2>1. arg[i] \in Slots /\ i \in at(arg[i])
        BY <1>3 DEF Arranged
    <2>2. \A j \in at(arg[i]) : j = i
        BY <1>3 DEF Arranged
    <2> QED
        BY <1>2, <2>1, <2>2
<1>5. ASSUME NEW s \in Slots, at(s) # {}
      PROVE  /\ remaining[s] = Wrapper(slot[s].class, left(s, decides(s)))
             /\ remaining[s].handle = left(s, decides(s))
    <2> DEFINE w(d) == Wrapper(slot[s].class, left(s, d))
    <2>1. remaining[s] = w(decides(s))
        <3> HIDE DEF at, decides, left
        <3> QED
            BY <1>1, <1>5
    <2>2. \A d : w(d).handle = left(s, d)
        <3> HIDE DEF left
        <3> QED
            BY DEF Wrapper
    <2> HIDE DEF at, decides, left, remaining
    <2>3. w(decides(s)).handle = left(s, decides(s))
        BY <2>2
    <2> HIDE DEF w
    <2>4. remaining[s].handle = left(s, decides(s))
        BY <2>1, <2>3
    <2> QED
        BY <2>1, <2>4 DEF w
<1>5a. ASSUME NEW s \in Slots, at(s) = {}
       PROVE  remaining[s] = slot[s]
    <2> HIDE DEF at, decides, left
    <2> QED
        BY <1>1, <1>5a
<1>6. \A i \in moved : Mode(sig, i) = "release"
    BY DEF Arranged
<1>7. \A i \in DOMAIN Params(sig) : i \in Updated(sig) <=> Mode(sig, i) = "update"
    BY DEF Updated
<1>8. slot \in [Slots -> Wrappers]
    BY DEF IInv, TypeOK
<1>9. \A s \in Slots : (\A i \in changing : arg[i] # s) => remaining[s].handle = slot[s].handle
    <2> SUFFICES ASSUME NEW s \in Slots, \A i \in changing : arg[i] # s
                 PROVE  remaining[s].handle = slot[s].handle
        OBVIOUS
    <2>1. CASE at(s) = {}
        BY <1>5a, <2>1
    <2>2. CASE at(s) # {}
        <3>1. decides(s) \in DOMAIN Params(sig) /\ decides(s) \notin changing
            BY <1>2, <2>2
        <3>2. left(s, decides(s)) = slot[s].handle
            BY <1>7, <3>1
        <3> HIDE DEF at, decides, left, remaining
        <3> QED
            BY <1>5, <2>2, <3>2
    <2> QED
        BY <2>1, <2>2
<1>10. \A i \in moved : remaining[arg[i]].handle = Null
    <2> SUFFICES ASSUME NEW i \in moved
                 PROVE  remaining[arg[i]].handle = Null
        OBVIOUS
    <2>1. left(arg[i], i) = Null
        BY <1>6
    <2>2. arg[i] \in Slots /\ at(arg[i]) # {} /\ decides(arg[i]) = i
        BY <1>4
    <2> HIDE DEF at, decides, left, remaining
    <2> QED
        BY <1>5, <2>1, <2>2
<1>11. \A i \in Updated(sig) : remaining[arg[i]].handle = new
    <2> SUFFICES ASSUME NEW i \in Updated(sig)
                 PROVE  remaining[arg[i]].handle = new
        OBVIOUS
    <2>1. left(arg[i], i) = new
        BY DEF Updated
    <2>2. arg[i] \in Slots /\ at(arg[i]) # {} /\ decides(arg[i]) = i
        BY <1>4
    <2> HIDE DEF at, decides, left, remaining
    <2> QED
        BY <1>5, <2>1, <2>2
<1>12. remaining \in [Slots -> Wrappers]
    <2>1. \A s \in Slots : \A i : left(s, i) \in Natives \cup {Null}
        BY <1>8 DEF Wrappers
    <2> HIDE DEF left, at, decides
    <2>2. ASSUME NEW s \in Slots
          PROVE  remaining[s] \in Wrappers
        <3>1. CASE at(s) = {}
            BY <1>5a, <1>8, <3>1
        <3>2. CASE at(s) # {}
            <4>1. Wrapper(slot[s].class, left(s, decides(s))) \in Wrappers
                BY <1>8, <2>1 DEF Wrapper, Wrappers
            <4> QED
                BY <1>5, <3>2, <4>1
        <3> QED
            BY <3>1, <3>2
    <2> QED
        BY <1>1, <2>2
<1> QED
    BY <1>3, <1>9, <1>10, <1>11, <1>12

\* The wrappers that hold n after a call: those that held it, without the ones
\* that gave it away, and the one, if any, that has been given n.
LEMMA CountAfterCall ==
    ASSUME NEW n, NEW H, NEW G, NEW x, IsFiniteSet(H), G \subseteq H
    PROVE  /\ Cardinality(H \ G) = Cardinality(H) - Cardinality(G)
           /\ x \notin H \ G => Cardinality((H \ G) \cup {x}) = Cardinality(H) - Cardinality(G) + 1
<1>1. IsFiniteSet(H \ G) /\ Cardinality(H \ G) = Cardinality(H) - Cardinality(H \cap G)
    BY FS_Difference
<1>2. H \cap G = G
    OBVIOUS
<1>3. x \notin H \ G => Cardinality((H \ G) \cup {x}) = Cardinality(H \ G) + 1
    BY <1>1, FS_AddElement
<1> QED
    BY <1>1, <1>2, <1>3

\* The result of a call is counted, and what its arguments give away is not.
LEMMA CallStep ==
    ASSUME PassedAsTaken, IInv,
           NEW sig \in Signatures, NEW kept, NEW arg, NEW moved, NEW res \in Slots,
           kept \in KeptBy(sig) \/ Params(sig) = <<>>,
           \A i \in DOMAIN Params(sig) : arg[i] \in Slots,
           moved \subseteq DOMAIN Params(sig),
           Call(sig, kept, arg, moved, res)
    PROVE  IInv'
<1> DEFINE remaining(new) == Remaining(sig, arg, moved, new)
           made(n) == Cardinality(Made(sig, arg, moved, n))
           taken(n) == Cardinality(Taken(sig, kept, arg, n))
           cost(n) == Cardinality(Spent(sig, arg, moved, n))
           H(n) == HoldersIn(slot, n)
           G(n) == Givers(sig, arg, moved, n)
<1>1. Arranged(sig, arg, moved)
    BY DEF Call, Moves, Arranged, Changing
<1>2. PICK new \in Natives :
          /\ Makes(sig) => \A s \in Holders(new) : \E i \in moved \cup Updated(sig) : arg[i] = s
          /\ Makes(sig) => refs[new] + made(new) - taken(new) = 0
          /\ slot' = IF sig.gives = "none" THEN remaining(new)
                     ELSE [remaining(new) EXCEPT ![res] = Wrapper(sig.gives, new)]
          /\ refs' = [n \in Natives |-> refs[n] + made(n) - taken(n)
                                         + IF Makes(sig) /\ n = new THEN 1 ELSE 0]
          /\ miscounted' = IF Makes(sig) THEN miscounted \ {new} ELSE miscounted
    BY DEF Call
<1>3. /\ sig.gives # "none" => slot[res] = Free
      /\ \A i \in DOMAIN Params(sig) : slot[arg[i]].handle # Null
    BY DEF Call, Usable
<1>4. /\ remaining(new) \in [Slots -> Wrappers]
      /\ \A i \in moved : remaining(new)[arg[i]].handle = Null
      /\ \A i \in Updated(sig) : remaining(new)[arg[i]].handle = new
      /\ \A s \in Slots : (\A i \in Changing(sig, moved) : arg[i] # s)
                           => remaining(new)[s].handle = slot[s].handle
    BY <1>1, RemainingWrappers
<1>5. /\ sig.gives \in {"none"} \cup Classes
      /\ sig.gives # "none" => Updated(sig) = {}
      /\ \A i, j \in Updated(sig) : i = j
    BY SignatureAssumption
<1>6. Changing(sig, moved) = moved \cup Updated(sig) /\ Updated(sig) \subseteq DOMAIN Params(sig)
    BY DEF Changing, Updated
<1>7. slot' \in [Slots -> Wrappers]
    <2>1. CASE sig.gives = "none"
        BY <1>2, <1>4, <2>1
    <2>2. CASE sig.gives # "none"
        <3>1. Wrapper(sig.gives, new) \in Wrappers
            BY <1>5, <2>2 DEF Wrapper, Wrappers
        <3> HIDE DEF remaining
        <3> QED
            BY <1>2, <1>4, <2>2, <3>1
    <2> QED
        BY <2>1, <2>2
<1> HIDE DEF remaining
<1>8. ASSUME NEW n \in Natives
      PROVE  /\ IsFiniteSet(H(n)) /\ Count(slot, n) = Cardinality(H(n)) /\ G(n) \subseteq H(n)
             /\ Cardinality(H(n)) \in Nat /\ cost(n) = Cardinality(G(n)) /\ cost(n) \in Nat
    <2>1. IsFiniteSet(G(n)) /\ Cardinality(G(n)) = cost(n)
        BY <1>1, SpentCount
    <2> QED
        BY <2>1, CountType, FS_CardinalityType DEF Count, HoldersIn, Givers
<1>9. ASSUME NEW n \in Natives
      PROVE  Count(slot', n) = Count(slot, n) - cost(n) + (IF Makes(sig) /\ n = new THEN 1 ELSE 0)
    <2>1. \A s \in Slots : s \in H(n) \ G(n) <=>
              slot[s].handle = n /\ \A i \in Changing(sig, moved) : arg[i] # s
        BY DEF HoldersIn, Givers
    <2>2. n # Null
        BY HandleAssumption
    <2>3. \A s \in Slots : (\A i \in Updated(sig) : arg[i] # s) =>
              (remaining(new)[s].handle = n <=> s \in H(n) \ G(n))
        BY <1>4, <1>6, <2>1, <2>2
    <2>4. CASE sig.gives # "none"
        <3>1. res \notin H(n)
            BY <1>3, <2>2, <2>4 DEF HoldersIn, Free
        <3>2. /\ \A s \in Slots \ {res} : slot'[s] = remaining(new)[s]
              /\ slot'[res] = Wrapper(sig.gives, new)
            BY <1>2, <1>4, <2>4
        <3>3. \A s \in Slots \ {res} : slot'[s].handle = n <=> s \in H(n) \ G(n)
            BY <1>5, <2>3, <2>4, <3>2
        <3>4. slot'[res].handle = new
            BY <3>2 DEF Wrapper
        <3>5. HoldersIn(slot', n) = IF n = new THEN (H(n) \ G(n)) \cup {res} ELSE H(n) \ G(n)
            <4>1. \A s \in Slots : slot'[s].handle = n <=>
                      s \in H(n) \ G(n) \/ (s = res /\ n = new)
                BY <3>1, <3>3, <3>4
            <4>2. H(n) \subseteq Slots /\ res \in Slots
                BY DEF HoldersIn
            <4> HIDE DEF H, G
            <4> QED
                BY <4>1, <4>2 DEF HoldersIn
        <3>6. /\ Cardinality(H(n) \ G(n)) = Cardinality(H(n)) - Cardinality(G(n))
              /\ Cardinality((H(n) \ G(n)) \cup {res}) = Cardinality(H(n)) - Cardinality(G(n)) + 1
            <4> HIDE DEF H, G, cost
            <4> QED
                BY <1>8, <3>1, CountAfterCall
        <3>7. Count(slot', n) = Cardinality(H(n)) - Cardinality(G(n)) + (IF n = new THEN 1 ELSE 0)
            <4> HIDE DEF H, G
            <4> QED
                BY <1>8, <3>5, <3>6 DEF Count
        <3> HIDE DEF H, G, cost
        <3> QED
            BY <1>8, <2>4, <3>7 DEF Makes
    <2>5. CASE sig.gives = "none" /\ Updated(sig) # {}
        <3>1. PICK u \in Updated(sig) : Updated(sig) = {u}
            BY <1>5, <2>5
        <3>2. arg[u] \in Slots /\ u \in Changing(sig, moved)
            BY <1>6
        <3>3. arg[u] \notin H(n) \ G(n)
            BY <2>1, <3>2
        <3>4. slot' = remaining(new)
            BY <1>2, <2>5
        <3>5. \A s \in Slots \ {arg[u]} : slot'[s].handle = n <=> s \in H(n) \ G(n)
            BY <2>3, <3>1, <3>4
        <3>6. slot'[arg[u]].handle = new
            BY <1>4, <3>4
        <3>7. HoldersIn(slot', n) = IF n = new THEN (H(n) \ G(n)) \cup {arg[u]} ELSE H(n) \ G(n)
            BY <3>2, <3>3, <3>5, <3>6 DEF HoldersIn
        <3>8. /\ Cardinality(H(n) \ G(n)) = Cardinality(H(n)) - Cardinality(G(n))
              /\ Cardinality((H(n) \ G(n)) \cup {arg[u]}) = Cardinality(H(n)) - Cardinality(G(n)) + 1
            <4> HIDE DEF H, G, cost
            <4> QED
                BY <1>8, <3>3, CountAfterCall
        <3>9. Count(slot', n) = Cardinality(H(n)) - Cardinality(G(n)) + (IF n = new THEN 1 ELSE 0)
            <4> HIDE DEF H, G
            <4> QED
                BY <1>8, <3>7, <3>8 DEF Count
        <3> HIDE DEF H, G, cost
        <3> QED
            BY <1>8, <2>5, <3>9 DEF Makes
    <2>6. CASE sig.gives = "none" /\ Updated(sig) = {}
        <3>1. \A s \in Slots : slot'[s].handle = n <=> s \in H(n) \ G(n)
            BY <1>2, <2>3, <2>6
        <3>2. HoldersIn(slot', n) = H(n) \ G(n)
            BY <3>1 DEF HoldersIn
        <3>3. Cardinality(H(n) \ G(n)) = Cardinality(H(n)) - Cardinality(G(n))
            BY <1>8, CountAfterCall
        <3> HIDE DEF H, G, cost
        <3> QED
            BY <1>8, <2>6, <3>2, <3>3 DEF Makes, Count
    <2> QED
        BY <2>4, <2>5, <2>6
<1>10. ASSUME NEW n \in Natives
       PROVE  /\ taken(n) = made(n) + cost(n) /\ made(n) \in Nat
              /\ refs'[n] = refs[n] - cost(n) + (IF Makes(sig) /\ n = new THEN 1 ELSE 0)
    <2>1. \A i \in DOMAIN Params(sig) : i \in kept <=> Mode(sig, i) = "native"
        <3>1. CASE kept \in KeptBy(sig)
            BY <3>1 DEF PassedAsTaken
        <3>2. CASE Params(sig) = <<>>
            BY <3>2
        <3> QED
            BY <3>1, <3>2
    <2>2. taken(n) = made(n) + cost(n) /\ made(n) \in Nat
        BY <1>1, <2>1, NetCost
    <2>3. refs'[n] = refs[n] + made(n) - taken(n) + (IF Makes(sig) /\ n = new THEN 1 ELSE 0)
        BY <1>2
    <2>4. refs[n] \in Int /\ cost(n) \in Nat
        BY <1>8 DEF IInv, TypeOK
    <2> HIDE DEF made, taken, cost
    <2> QED
        BY <2>2, <2>3, <2>4
\* The counts of the objects that were counted right before, and of the new one,
\* which the wrappers that still held it have given up.
<1>11. ASSUME NEW n \in Natives \ miscounted'
       PROVE  refs'[n] = Count(slot', n)
    <2>1. Count(slot, n) \in Nat /\ cost(n) \in Nat
        BY <1>8, CountType
    <2>2. CASE n \notin miscounted
        <3>1. refs[n] = Count(slot, n)
            BY <2>2, InCounts DEF IInv
        <3> HIDE DEF cost, made, taken
        <3> QED
            BY <1>9, <1>10, <2>1, <3>1
    <2>3. CASE n \in miscounted
        <3>1. Makes(sig) /\ n = new
            BY <1>2, <2>3
        <3>2. H(n) \subseteq G(n)
            BY <1>2, <1>6, <3>1 DEF HoldersIn, Holders, Givers
        <3>3. H(n) = G(n)
            BY <1>8, <3>2
        <3>4. Count(slot, n) = cost(n)
            BY <1>8, <3>3
        <3>5. refs[n] - cost(n) = 0
            <4>1. refs[n] + made(n) - taken(n) = 0
                BY <1>2, <3>1
            <4>2. refs[n] \in Int
                BY DEF IInv, TypeOK
            <4>3. taken(n) = made(n) + cost(n) /\ made(n) \in Nat
                BY <1>10
            <4> HIDE DEF cost, made, taken
            <4> QED
                BY <2>1, <4>1, <4>2, <4>3
        <3>6. refs'[n] = 1
            <4> HIDE DEF cost, made, taken
            <4> QED
                BY <1>10, <3>1, <3>5
        <3>7. Count(slot', n) = Count(slot, n) - cost(n) + 1
            <4> HIDE DEF cost, made, taken
            <4> QED
                BY <1>9, <3>1
        <3> HIDE DEF cost, made, taken
        <3> QED
            BY <2>1, <3>4, <3>6, <3>7
    <2> QED
        BY <2>2, <2>3
<1>12. refs' \in [Natives -> Int]
    <2>1. \A n \in Natives : refs[n] \in Int /\ cost(n) \in Nat
        BY <1>8 DEF IInv, TypeOK
    <2>2. \A n \in Natives : refs'[n] \in Int
        <3> TAKE n \in Natives
        <3>1. refs[n] \in Int /\ cost(n) \in Nat
            BY <2>1
        <3>2. refs'[n] = refs[n] - cost(n) + (IF Makes(sig) /\ n = new THEN 1 ELSE 0)
            BY <1>10
        <3> HIDE DEF cost, made, taken
        <3> QED
            BY <3>1, <3>2
    <2>3. refs' = [n \in Natives |-> refs'[n]]
        <3> HIDE DEF cost, made, taken
        <3> QED
            BY <1>2
    <2> QED
        BY <2>2, <2>3
<1>13. miscounted' \subseteq Natives
    BY <1>2 DEF IInv, TypeOK
<1> QED
    BY <1>7, <1>11, <1>12, <1>13, KeepsInvariant

----------------------------------------------------------------------------
LEMMA InitInv ==
    Init => IInv
<1> SUFFICES ASSUME Init PROVE IInv
    OBVIOUS
<1>1. TypeOK
    BY DEF Init, TypeOK, Wrappers, Free
<1>2. ASSUME NEW n \in Natives
      PROVE  refs[n] = Count(slot, n)
    <2>1. HoldersIn(slot, n) = {}
        BY HandleAssumption DEF Init, HoldersIn, Free
    <2>2. Count(slot, n) = 0
        BY <2>1, FS_EmptySet DEF Count
    <2> QED
        BY <2>2 DEF Init
<1> QED
    BY <1>1, <1>2, InCounts DEF IInv

\* The signatures that a wrapper in a slot may be the first argument of.
LEMMA OperationsOf ==
    ASSUME IInv, NEW s \in Slots, NEW sig \in Operations[slot[s].class]
    PROVE  sig \in Signatures
BY DEF IInv, TypeOK, Wrappers, Operations

LEMMA OperateStep ==
    ASSUME PassedAsTaken, IInv, Operate
    PROVE  IInv'
<1>1. ASSUME NEW sig \in Makers, NEW res \in Slots, Call(sig, {}, <<>>, {}, res)
      PROVE  IInv'
    <2>1. sig \in Signatures /\ Params(sig) = <<>>
        BY DEF Makers
    <2>2. DOMAIN Params(sig) = {}
        BY <2>1
    <2> QED
        BY <1>1, <2>1, <2>2, CallStep
<1>2. ASSUME NEW s \in Slots, NEW sig \in Operations[slot[s].class], NEW kept \in KeptBy(sig),
             NEW arg \in Arguments(sig, s), NEW moved \in SUBSET (DOMAIN Params(sig)),
             NEW res \in Places(sig, s), Call(sig, kept, arg, moved, res)
      PROVE  IInv'
    <2>1. sig \in Signatures
        BY OperationsOf
    <2>2. \A i \in DOMAIN Params(sig) : arg[i] \in Slots
        BY DEF Arguments
    <2>3. res \in Slots
        BY DEF Places
    <2> QED
        BY <1>2, <2>1, <2>2, <2>3, CallStep
<1>3. ASSUME NEW sig \in Makers, ConstructorThrows(sig, <<>>)
      PROVE  IInv'
    BY <1>3, ConstructorThrowsStep DEF Makers
<1>4. ASSUME NEW s \in Slots, NEW sig \in Operations[slot[s].class],
             NEW arg \in Arguments(sig, s), ConstructorThrows(sig, arg)
      PROVE  IInv'
    BY <1>4, OperationsOf, ConstructorThrowsStep
<1> QED
    BY <1>1, <1>2, <1>3, <1>4 DEF Operate

LEMMA AssignStep ==
    ASSUME IInv, Assign
    PROVE  IInv'
<1>1. ASSUME NEW s \in Slots, NEW t \in Slots,
             CopyConstruct(s, t) \/ MoveConstruct(s, t) \/ CopyAssign(s, t) \/ MoveAssign(s, t)
      PROVE  IInv'
    BY <1>1, CopyConstructStep, MoveConstructStep, CopyAssignStep, MoveAssignStep
<1>2. ASSUME NEW s \in Slots, Destroy(s)
      PROVE  IInv'
    BY <1>2, DestroyStep
<1>3. ASSUME NEW s \in Slots, NEW t \in Slots,
             \/ CopyOfFreed(s, t) \/ SelfMove(s) \/ ShallowAssign(s, t)
             \/ ShallowMove(s, t) \/ Overwrite(s, t)
      PROVE  IInv'
    BY <1>3, DefectiveStep
<1> QED
    BY <1>1, <1>2, <1>3 DEF Assign

LEMMA NextInv ==
    ASSUME PassedAsTaken
    PROVE  IInv /\ [Next]_vars => IInv'
<1>1. IInv /\ UNCHANGED vars => IInv'
    BY DEF vars, IInv, TypeOK, OneReferencePerWrapper, Holders
<1> QED
    BY <1>1, OperateStep, AssignStep DEF Next, Undefined

\* Every slot holds a wrapper of a known class or none, and every object that is
\* miscounted is one of the library's.
THEOREM TypeCorrect == PassedAsTaken => (Spec => []TypeOK)
<1> SUFFICES ASSUME PassedAsTaken PROVE Spec => []TypeOK
    OBVIOUS
<1>1. IInv => TypeOK
    BY DEF IInv
<1> QED
    BY <1>1, InitInv, NextInv, PTL DEF Spec

\* Provided that every operation of the wrappers of src/isl and src/cuda passes
\* each of its handles as the library treats it: whatever operations, copies,
\* moves, assignments and destructions come before, the library counts one
\* reference for each wrapper of an object that no defective special member was
\* applied to.
THEOREM OneReferenceCorrect == PassedAsTaken => (Spec => []OneReferencePerWrapper)
<1> SUFFICES ASSUME PassedAsTaken PROVE Spec => []OneReferencePerWrapper
    OBVIOUS
<1>1. IInv => OneReferencePerWrapper
    BY DEF IInv
<1> QED
    BY <1>1, InitInv, NextInv, PTL DEF Spec

\* So no such object is freed while a wrapper holds it, or twice, and none
\* outlives its last wrapper.
THEOREM FreedWithLastWrapper ==
    PassedAsTaken =>
        (Spec => [](\A n \in Natives \ miscounted :
                       refs[n] >= 0 /\ (refs[n] = 0 <=> Holders(n) = {})))
<1> SUFFICES ASSUME PassedAsTaken
             PROVE  Spec => [](\A n \in Natives \ miscounted :
                                  refs[n] >= 0 /\ (refs[n] = 0 <=> Holders(n) = {}))
    OBVIOUS
<1>1. ASSUME IInv, NEW n \in Natives \ miscounted
      PROVE  refs[n] >= 0 /\ (refs[n] = 0 <=> Holders(n) = {})
    <2>1. HoldersIn(slot, n) = Holders(n)
        BY DEF HoldersIn, Holders
    <2>2. refs[n] = Cardinality(Holders(n)) /\ IsFiniteSet(Holders(n))
        BY <1>1, <2>1, InCounts, CountType DEF Count, IInv
    <2>3. Cardinality(Holders(n)) \in Nat
        BY <2>2, FS_CardinalityType
    <2>4. Cardinality(Holders(n)) = 0 <=> Holders(n) = {}
        BY <2>2, FS_EmptySet
    <2> QED
        BY <2>2, <2>3, <2>4
<1>2. IInv => \A n \in Natives \ miscounted :
                 refs[n] >= 0 /\ (refs[n] = 0 <=> Holders(n) = {})
    BY <1>1
<1> QED
    BY <1>2, InitInv, NextInv, PTL DEF Spec
=============================================================================
