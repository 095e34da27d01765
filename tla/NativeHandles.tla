--------------------------- MODULE NativeHandles ---------------------------
(***************************************************************************)
(* The wrappers of reference-counted library objects: isl (src/isl) and    *)
(* the CUDA driver (src/cuda).  A wrapper holds a native handle or null;   *)
(* operations pass handles to the library, which keeps or takes them; the  *)
(* special members copy, move and free them.  Signatures and Members give  *)
(* what each operation and each class does.  The library itself is         *)
(* external: it counts the references to each of its objects, and Keeps    *)
(* says which parameters of its functions it only reads.                   *)
(***************************************************************************)
EXTENDS Integers, FiniteSets, Sequences

CONSTANTS
    Slots,       \* the places where the program constructs wrappers
    Natives,     \* the objects of the libraries
    NoClass,     \* the class of a slot that holds no wrapper
    Null,        \* the null handle
    Signatures,  \* records [calls, on, self, args, gives], see IslOperations
    ClassMembers,  \* records [class, copy, move, assign, move_assign], see IslClasses
    TwoStep,     \* the classes whose constructor may throw once it holds its resource
    Keeps,       \* the parameters <<function, position>> that the library does not take
    MaxMiscounted  \* how many objects at a time the special members may have miscounted

VARIABLES
    slot,        \* slot[s].class and slot[s].handle
    refs,        \* refs[n]: the references the library counts to n; 0: freed
    miscounted   \* the objects that a special member has left with a wrong count
vars == <<slot, refs, miscounted>>

Free == [class |-> NoClass, handle |-> Null]
Wrapper(class, handle) == [class |-> class, handle |-> handle]
Classes == {mb.class : mb \in ClassMembers}
Wrappers == [class : {NoClass} \cup Classes, handle : Natives \cup {Null}]
MembersOf(class) == CHOOSE mb \in ClassMembers : mb.class = class
Holders(n) == {s \in Slots : slot[s].handle = n}
Usable(s) == slot[s].handle # Null

Init ==
    /\ slot = [s \in Slots |-> Free]
    /\ refs = [n \in Natives |-> 0]
    /\ miscounted = {}

----------------------------------------------------------------------------
(* What a call does with the handle of one parameter.                      *)

\* The wrapper called on, if any, is the first parameter.
Params(sig) == IF sig.on = "none" THEN sig.args ELSE <<<<sig.on, sig.self>>>> \o sig.args

\* A by-value parameter is made from an lvalue by copying it, and from an rvalue
\* by the move constructor where the class has one; it is then released.
Moves(class, mode) == mode = "release" /\ MembersOf(class).move = "release"

\* A reference is made by isl_x_copy and by the copy constructor of a parameter.
Copied(mode, moved) == mode = "copy" \/ (mode = "release" /\ ~moved)

\* The handle that the argument holds afterwards.
Left(mode, moved, handle, new) ==
    CASE mode = "update" -> new
      [] mode = "release" /\ moved -> Null
      [] OTHER -> handle

Mode(sig, i) == Params(sig)[i][2]
Updated(sig) == {i \in DOMAIN Params(sig) : Mode(sig, i) = "update"}
Makes(sig) == sig.gives # "none" \/ Updated(sig) # {}

\* The parameters that a function called by an operation of sig keeps.
KeptBy(sig) == {{i \in DOMAIN Params(sig) : <<f, i>> \in Keeps} : f \in sig.calls}

\* Every operation makes at most one wrapper or updates at most one in place.
ASSUME SignatureAssumption ==
    \A sig \in Signatures :
        /\ IsFiniteSet(DOMAIN Params(sig))
        /\ \A i \in DOMAIN Params(sig) : Mode(sig, i) \in {"native", "copy", "release", "update"}
        /\ \A i, j \in Updated(sig) : i = j
        /\ sig.gives \in {"none"} \cup Classes
        /\ sig.gives # "none" => Updated(sig) = {}
ASSUME HandleAssumption == Null \notin Natives /\ IsFiniteSet(Slots)

\* The parameters for which a reference to n is made, and those whose reference
\* to n the library takes.
Made(sig, arg, moved, n) ==
    {i \in DOMAIN Params(sig) : slot[arg[i]].handle = n /\ Copied(Mode(sig, i), i \in moved)}
Taken(sig, kept, arg, n) == {i \in DOMAIN Params(sig) \ kept : slot[arg[i]].handle = n}

\* The wrappers after a call in which the library has made new; of several
\* parameters in one slot, one that changes it counts.
Remaining(sig, arg, moved, new) ==
    LET changing == moved \cup Updated(sig)
        at(s) == {i \in DOMAIN Params(sig) : arg[i] = s}
        decides(s) == CHOOSE i \in at(s) : i \in changing \/ at(s) \cap changing = {}
    IN  [s \in Slots |-> IF at(s) = {} THEN slot[s]
                         ELSE Wrapper(slot[s].class,
                                      Left(Mode(sig, decides(s)), decides(s) \in moved,
                                           slot[s].handle, new))]

\* A call of sig on the wrappers in the slots arg, of which those in moved are
\* rvalues; isl keeps the parameters in kept.  The result is constructed in slot
\* res.  What the library makes has an address that no object has, that of one
\* freed by the call included: a wrapper updated in place may get its own again.
Call(sig, kept, arg, moved, res) ==
    LET after(n) == refs[n] + Cardinality(Made(sig, arg, moved, n))
                            - Cardinality(Taken(sig, kept, arg, n))
        fresh(new) == after(new) = 0 /\ \A s \in Holders(new) :
                          \E i \in moved \cup Updated(sig) : arg[i] = s
        remaining(new) == Remaining(sig, arg, moved, new)
    IN  /\ \A i \in DOMAIN Params(sig) : slot[arg[i]].class = Params(sig)[i][1] /\ Usable(arg[i])
        /\ \A i \in moved : Moves(Params(sig)[i][1], Mode(sig, i))
        /\ \A i \in moved \cup Updated(sig), j \in DOMAIN Params(sig) : i # j => arg[i] # arg[j]
        /\ sig.gives # "none" => slot[res] = Free
        /\ \E new \in Natives :
              /\ Makes(sig) => fresh(new)
              /\ slot' = IF sig.gives = "none" THEN remaining(new)
                         ELSE [remaining(new) EXCEPT ![res] = Wrapper(sig.gives, new)]
              /\ refs' = [n \in Natives |-> after(n) + IF Makes(sig) /\ n = new THEN 1 ELSE 0]
              /\ miscounted' = IF Makes(sig) THEN miscounted \ {new} ELSE miscounted

Miscount(H) ==
    /\ miscounted' = miscounted \cup (H \cap Natives)
    /\ Cardinality(miscounted') <= MaxMiscounted

\* A constructor of sig throws between its two driver calls: nothing ever frees
\* the resource.
ConstructorThrows(sig, arg) ==
    LET P == Params(sig)
    IN  /\ sig.gives \in TwoStep
        /\ \A i \in DOMAIN P : slot[arg[i]].class = P[i][1] /\ Usable(arg[i])
        /\ \E new \in Natives :
              /\ refs[new] = 0 /\ Holders(new) = {}
              /\ refs' = [refs EXCEPT ![new] = 1]
              /\ Miscount({new})
        /\ UNCHANGED slot

----------------------------------------------------------------------------
(* The special members that count right.                                   *)

Released(r, h) == IF h = Null THEN r ELSE [r EXCEPT ![h] = @ - 1]
Acquired(r, h) == IF h = Null THEN r ELSE [r EXCEPT ![h] = @ + 1]

CopyConstruct(s, t) ==
    /\ Usable(s) /\ slot[t] = Free
    /\ MembersOf(slot[s].class).copy = "copy"
    /\ slot' = [slot EXCEPT ![t] = slot[s]]
    /\ refs' = Acquired(refs, slot[s].handle)
    /\ UNCHANGED miscounted

MoveConstruct(s, t) ==
    /\ Usable(s) /\ slot[t] = Free
    /\ MembersOf(slot[s].class).move = "release"
    /\ slot' = [slot EXCEPT ![t] = slot[s], ![s].handle = Null]
    /\ UNCHANGED <<refs, miscounted>>

\* operator= of a class with "free_copy" frees the own handle first: if it is
\* the last reference to what is then copied, that is gone.
FreesItsSource(s, t) ==
    /\ MembersOf(slot[s].class).assign = "free_copy"
    /\ slot[t].handle = slot[s].handle /\ refs[slot[s].handle] = 1

CopyAssign(s, t) ==
    /\ Usable(s) /\ slot[t].class = slot[s].class
    /\ MembersOf(slot[s].class).assign \in {"by_value", "free_copy"} /\ ~FreesItsSource(s, t)
    /\ slot' = [slot EXCEPT ![t].handle = slot[s].handle]
    /\ refs' = Acquired(Released(refs, slot[t].handle), slot[s].handle)
    /\ UNCHANGED miscounted

\* A by-value operator= that is given an rvalue moves it into its parameter, and
\* so can be given the own wrapper.
MoveAssign(s, t) ==
    LET mb == MembersOf(slot[s].class)
        by_value == mb.move_assign = "assign" /\ mb.assign = "by_value" /\ mb.move = "release"
    IN  /\ Usable(s) /\ slot[t].class = slot[s].class
        /\ \/ /\ \/ s # t /\ (mb.move_assign = "free_release" \/ by_value)
                 \/ mb.move_assign = "free_null"
              /\ slot' = [slot EXCEPT ![t].handle = slot[s].handle, ![s].handle = Null]
              /\ refs' = Released(refs, slot[t].handle)
           \/ /\ mb.move_assign = "swap"
              /\ slot' = [slot EXCEPT ![t].handle = slot[s].handle, ![s].handle = slot[t].handle]
              /\ UNCHANGED refs
        /\ UNCHANGED miscounted

Destroy(s) ==
    /\ slot[s] # Free
    /\ slot' = [slot EXCEPT ![s] = Free]
    /\ refs' = Released(refs, slot[s].handle)
    /\ UNCHANGED miscounted

----------------------------------------------------------------------------
(* Those that do not.                                                      *)

\* x = x, or an equal handle, frees the object that the wrapper goes on to hold.
CopyOfFreed(s, t) ==
    /\ Usable(s) /\ slot[t].class = slot[s].class
    /\ FreesItsSource(s, t)
    /\ refs' = Released(refs, slot[t].handle)
    /\ Miscount({slot[t].handle}) /\ UNCHANGED slot

\* release() gives the handle that was freed back to the wrapper it came from.
SelfMove(s) ==
    /\ Usable(s) /\ MembersOf(slot[s].class).move_assign = "free_release"
    /\ refs' = Released(refs, slot[s].handle)
    /\ Miscount({slot[s].handle}) /\ UNCHANGED slot

\* The implicit assignment copies the pointer: two wrappers share one reference,
\* and the reference of the target is lost.
ShallowAssign(s, t) ==
    LET mb == MembersOf(slot[s].class)
    IN  /\ Usable(s) /\ slot[t].class = slot[s].class /\ slot[t].handle # slot[s].handle
        /\ mb.assign = "shallow" \/ mb.move_assign = "shallow"
        /\ slot' = [slot EXCEPT ![t].handle = slot[s].handle]
        /\ Miscount({slot[s].handle, slot[t].handle}) /\ UNCHANGED refs

\* The defaulted move constructor leaves the pointer in its source.
ShallowMove(s, t) ==
    /\ Usable(s) /\ slot[t] = Free
    /\ MembersOf(slot[s].class).move = "shallow"
    /\ slot' = [slot EXCEPT ![t] = slot[s]]
    /\ Miscount({slot[s].handle}) /\ UNCHANGED refs

\* context_guard: the activation of the target is never undone.
Overwrite(s, t) ==
    /\ Usable(s) /\ slot[t].class = slot[s].class
    /\ MembersOf(slot[s].class).move_assign = "overwrite"
    /\ slot' = [slot EXCEPT ![t].handle = slot[s].handle, ![s].handle = Null]
    /\ Miscount({slot[t].handle}) /\ UNCHANGED refs

----------------------------------------------------------------------------
\* The signatures of the constructors without wrapper parameters, and those
\* whose first parameter is of a given class.
Makers == {sig \in Signatures : Params(sig) = <<>>}
Operations == [class \in {NoClass} \cup Classes |->
                 {sig \in Signatures \ Makers : Params(sig)[1][1] = class}]
Arguments(sig, s) == {arg \in [DOMAIN Params(sig) -> Slots] : arg[1] = s}

\* Where the result is constructed, if there is one.
Places(sig, s) == IF sig.gives = "none" THEN {s} ELSE {r \in Slots : slot[r] = Free}

Operate ==
    \/ \E sig \in Makers, res \in Slots : Call(sig, {}, <<>>, {}, res)
    \/ \E s \in {x \in Slots : Usable(x)} :
          \E sig \in Operations[slot[s].class] :
             \E kept \in KeptBy(sig), arg \in Arguments(sig, s),
                moved \in SUBSET (DOMAIN Params(sig)), res \in Places(sig, s) :
                Call(sig, kept, arg, moved, res)
    \/ \E sig \in Makers : ConstructorThrows(sig, <<>>)
    \/ \E s \in {x \in Slots : Usable(x)} :
          \E sig \in Operations[slot[s].class] :
             \E arg \in Arguments(sig, s) : ConstructorThrows(sig, arg)

Assign ==
    \/ \E s, t \in Slots : CopyConstruct(s, t)
    \/ \E s, t \in Slots : MoveConstruct(s, t)
    \/ \E s, t \in Slots : CopyAssign(s, t)
    \/ \E s, t \in Slots : MoveAssign(s, t)
    \/ \E s \in Slots : Destroy(s)
    \/ \E s, t \in Slots : CopyOfFreed(s, t)
    \/ \E s \in Slots : SelfMove(s)
    \/ \E s, t \in Slots : ShallowAssign(s, t)
    \/ \E s, t \in Slots : ShallowMove(s, t)
    \/ \E s, t \in Slots : Overwrite(s, t)

\* A wrapper of a freed object is undefined behaviour to use, and an object
\* freed twice is at once: nothing more is said of the program then.
Defined ==
    \A n \in Natives : refs[n] >= 0 /\ (Holders(n) # {} => refs[n] > 0)
Undefined == ~Defined /\ UNCHANGED vars

Next == (Defined /\ (Operate \/ Assign)) \/ Undefined

Spec == Init /\ [][Next]_vars

----------------------------------------------------------------------------
TypeOK ==
    /\ slot \in [Slots -> Wrappers]
    /\ refs \in [Natives -> Int]
    /\ miscounted \subseteq Natives

\* The library counts exactly one reference for every wrapper that holds an
\* object, whatever operations, copies, moves, assignments and destructions
\* came before, of it and of others: none is freed while a wrapper holds it (use
\* after free), none survives its last wrapper (leak).  Only the objects that
\* one of the defective special members was applied to, or that a CUDA
\* constructor made before it threw, are exempt.
OneReferencePerWrapper ==
    \A n \in Natives \ miscounted : refs[n] = Cardinality(Holders(n))

\* What the code around each call must get right, operation by operation: a
\* handle that the library only reads is passed as it is, and one that it takes
\* is copied, released or replaced by the result.
PassedAsTaken ==
    \A sig \in Signatures : \A kept \in KeptBy(sig) : \A i \in DOMAIN Params(sig) :
        i \in kept <=> Mode(sig, i) = "native"
=============================================================================
