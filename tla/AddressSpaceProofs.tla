------------------------- MODULE AddressSpaceProofs -------------------------
(***************************************************************************)
(* Proofs about AddressSpace, for any set of nodes, objects and users, any *)
(* placement of them and any amount of memory.                             *)
(***************************************************************************)
EXTENDS AddressSpace, FiniteSetTheorems, TLAPS

LEMMA TypeInit == Init => TypeOK
<1> SUFFICES ASSUME Init PROVE TypeOK
    OBVIOUS
<1>1. crashed \in BOOLEAN
    BY Zenon DEF Init
<1>2. content \in [Pages -> Nat] /\ latest \in [Objects -> Nat]
    BY DEF Init, Pages
<1> QED
    BY <1>1, <1>2 DEF Init, TypeOK, Lives, UserStates, FaultStates

LEMMA TypeUserStep ==
    ASSUME TypeOK, NEW u \in Users, UserStep(u)
    PROVE  TypeOK'
<1> USE UsersAssumption DEF TypeOK, Pages
<1>1. crashed' \in BOOLEAN
    BY DEF UserStep, Acquire, Resolve, PageFault, PageFaultThrows, Install, Deliver, Access,
           FetchInstance, AllocatePage, CopyDone, PageFaultFails
<1>2. CASE Acquire(u)
    BY <1>1, <1>2 DEF Acquire, faultVars, dataVars
<1>3. CASE Resolve(u)
    <2>1. EntryOf(u) \in Pages \cup {None}
        BY DEF EntryOf
    <2>2. pc' \in [Users -> UserStates]
        BY <1>3 DEF Resolve, UserStates
    <2>3. page' \in [Users -> Pages \cup {None}]
        <3>1. page' = page \/ page' = [page EXCEPT ![u] = EntryOf(u)]
            BY <1>3 DEF Resolve
        <3> QED
            BY <2>1, <3>1
    <2>4. holder' \in [Objects -> Users \cup {None}]
        BY <1>3 DEF Resolve, ReleaseToken
    <2> QED
        BY <1>1, <1>3, <2>2, <2>3, <2>4 DEF Resolve, faultVars, dataVars
<1>4. CASE PageFault(u)
    BY <1>1, <1>4 DEF PageFault, FaultStates, resolveVars, dataVars
<1>5. CASE PageFaultThrows(u)
    BY <1>1, <1>5 DEF PageFaultThrows, ReleaseToken, UserStates, faultVars, dataVars
<1>6. CASE Install(u)
    BY <1>1, <1>6 DEF Install, EntryOf, UserStates, faultVars, dataVars
<1>7. CASE Deliver(u)
    BY <1>1, <1>7 DEF Deliver, ReleaseToken, UserStates, faultVars, dataVars
<1>8. CASE Access(u)
    <2>1. pc' \in [Users -> UserStates] /\ holder' \in [Objects -> Users \cup {None}]
        BY <1>8 DEF Access, UserStates
    <2>2. latest' \in [Objects -> Nat] /\ content' \in [Pages -> Nat]
        <3>1. CASE UNCHANGED dataVars
            BY <3>1 DEF dataVars
        <3>2. CASE /\ latest' = [latest EXCEPT ![Target[u]] = @ + 1]
                   /\ content' = [content EXCEPT ![page[u]] = IF @ = 0 THEN 0 ELSE latest[Target[u]] + 1]
            <4>1. latest' \in [Objects -> Nat] /\ latest[Target[u]] + 1 \in Nat
                BY <3>2
            <4>2. PICK k \in Nat : content' = [content EXCEPT ![page[u]] = k]
                BY <3>2, <4>1
            <4>3. content \in [Pages -> Nat]
                OBVIOUS
            <4>4. content' \in [Pages -> Nat]
                BY ONLY <4>2, <4>3
            <4> QED
                BY <4>1, <4>4
        <3> QED
            BY <1>8, <3>1, <3>2 DEF Access
    <2> QED
        BY <1>1, <1>8, <2>1, <2>2 DEF Access, faultVars
<1>9. CASE FetchInstance(u)
    BY <1>1, <1>9 DEF FetchInstance, FaultStates, resolveVars, dataVars
<1>10. CASE AllocatePage(u)
    BY <1>1, <1>10 DEF AllocatePage, FaultStates, resolveVars, dataVars
<1>11. CASE CopyDone(u)
    BY <1>1, <1>11 DEF CopyDone, FaultStates, resolveVars
<1>12. CASE PageFaultFails(u)
    BY <1>1, <1>12 DEF PageFaultFails, FaultStates, resolveVars, dataVars
<1> QED
    BY <1>2, <1>3, <1>4, <1>5, <1>6, <1>7, <1>8, <1>9, <1>10, <1>11, <1>12 DEF UserStep

LEMMA TypeMemoryStep ==
    ASSUME TypeOK, MemoryStep
    PROVE  TypeOK'
<1> USE UsersAssumption DEF TypeOK, Pages
<1>1. ASSUME NEW o \in Objects, Create(o)
      PROVE  TypeOK'
    BY <1>1 DEF Create, Lives, resolveVars, faultVars, dataVars
<1>2. ASSUME NEW o \in Objects, Finalize(o)
      PROVE  TypeOK'
    BY <1>2 DEF Finalize, Lives, resolveVars, faultVars, dataVars
<1>3. ASSUME NEW n \in Nodes, AllocateNull(n)
      PROVE  TypeOK'
    <2>1. crashed' \in BOOLEAN
        BY <1>3, Zenon DEF AllocateNull
    <2> QED
        BY <1>3, <2>1 DEF AllocateNull, resolveVars, faultVars, dataVars
<1>4. ASSUME NEW n \in Nodes, NEW o \in Objects, Evict(n, o)
      PROVE  TypeOK'
    BY <1>4 DEF Evict, resolveVars, faultVars, dataVars
<1> QED
    BY <1>1, <1>2, <1>3, <1>4 DEF MemoryStep

LEMMA TypeStutter ==
    ASSUME TypeOK, UNCHANGED vars
    PROVE  TypeOK'
BY DEF TypeOK, vars

\* The tables, the users and the histories of the address spaces always have
\* their types.
THEOREM TypeCorrect == Spec => []TypeOK
<1>1. TypeOK /\ [Next]_vars => TypeOK'
    BY TypeUserStep, TypeMemoryStep, TypeStutter DEF Next, Terminated
<1> QED
    BY TypeInit, <1>1, PTL DEF Spec
-----------------------------------------------------------------------------
(***************************************************************************)
(* The inductive invariant                                                 *)
(***************************************************************************)

LEMMA InvInit == Init => IInv
<1> SUFFICES ASSUME Init PROVE IInv
    OBVIOUS
<1>1. PageInv /\ UnbornInv
    BY UsersAssumption DEF Init, PageInv, UnbornInv, HasPage
<1>2. ResidentInv
    BY UsersAssumption DEF Init, ResidentInv, LiveObjectStaysResident
<1>3. ShareInv
    BY DEF Init, ShareInv, HasPage
<1> QED
    BY TypeInit, <1>1, <1>2, <1>3 DEF IInv

\* The state the invariant is about, but for the stage of page faults under way.
Quiet ==
    /\ UNCHANGED <<life, entry, pc, page, evicted>>
    /\ \A u \in Users : fault'[u] = "none" <=> fault[u] = "none"

LEMMA QuietStep ==
    ASSUME IInv, TypeOK', Quiet
    PROVE  IInv'
<1> USE UsersAssumption DEF IInv, TypeOK, Quiet
<1>1. PageInv'
    BY DEF PageInv, HasPage, PageFor, Place, ObjectOf
<1>2. UnbornInv'
    BY DEF UnbornInv
<1>3. ResidentInv'
    BY DEF ResidentInv, LiveObjectStaysResident, HasPage
<1>4. ShareInv'
    BY DEF ShareInv, HasPage, EntryOf
<1> QED
    BY <1>1, <1>2, <1>3, <1>4

\* A user that has found its object moves on and is given no new page.
MovesOn(u) ==
    /\ UNCHANGED <<life, entry, page, fault, evicted>>
    /\ pc[u] # "idle" \/ life[Target[u]] # "unborn"
    /\ pc'[u] \notin {"idle", "missed"}
    /\ HasPage(u)' => HasPage(u)
    /\ \A w \in Users : w # u => pc'[w] = pc[w]

LEMMA MovesOnStep ==
    ASSUME IInv, TypeOK', NEW u \in Users, MovesOn(u)
    PROVE  IInv'
<1> USE UsersAssumption DEF IInv, TypeOK, MovesOn
<1>1. \A w \in Users : HasPage(w)' => HasPage(w)
    BY DEF HasPage
<1>2. PageInv'
    BY <1>1 DEF PageInv, PageFor, Place, ObjectOf
<1>3. UnbornInv'
    BY DEF UnbornInv
<1>4. ResidentInv'
    BY <1>1 DEF ResidentInv, LiveObjectStaysResident
<1>5. ShareInv'
    BY <1>1 DEF ShareInv, EntryOf
<1> QED
    BY <1>2, <1>3, <1>4, <1>5

LEMMA ResolveStep ==
    ASSUME IInv, TypeOK', NEW u \in Users, Resolve(u)
    PROVE  IInv'
<1> USE UsersAssumption DEF IInv, TypeOK
<1>0. /\ UNCHANGED <<life, entry, fault, evicted>>
      /\ pc[u] = "idle" /\ life[Target[u]] # "unborn"
      /\ \A w \in Users : w # u => pc'[w] = pc[w] /\ page'[w] = page[w]
    BY DEF Resolve, faultVars
<1>1. CASE EntryOf(u) = None /\ pc' = [pc EXCEPT ![u] = "missed"] /\ page' = page
    <2>1. \A w \in Users : HasPage(w)' => HasPage(w)
        BY <1>0, <1>1 DEF HasPage
    <2>2. PageInv' /\ UnbornInv'
        BY <1>0, <1>1, <2>1 DEF PageInv, PageFor, Place, ObjectOf, UnbornInv
    <2>3. ResidentInv'
        <3>1. life[Target[u]] = "live" => Node[u] # Home[Target[u]]
            BY <1>1, NamesAssumption DEF ResidentInv, LiveObjectStaysResident, EntryOf, Pages
        <3> QED
            BY <1>0, <1>1, <2>1, <3>1 DEF ResidentInv, LiveObjectStaysResident
    <2>4. ShareInv'
        BY <1>0, <1>1, <2>1 DEF ShareInv, EntryOf
    <2> QED
        BY <2>2, <2>3, <2>4
<1>2. CASE /\ EntryOf(u) # None
           /\ pc' = [pc EXCEPT ![u] = "resolved"] \/ pc' = [pc EXCEPT ![u] = "attached"]
           /\ page' = [page EXCEPT ![u] = EntryOf(u)]
    <2>1. /\ page'[u] = entry[Node[u]][Target[u]] /\ page'[u] # None
          /\ \A w \in Users : w # u => (HasPage(w)' <=> HasPage(w))
          /\ pc'[u] \notin {"idle", "missed"}
        BY <1>0, <1>2 DEF HasPage, EntryOf
    <2>2. PageInv'
        <3>1. PageFor(page'[u], Node[u], Target[u])
            BY <2>1 DEF PageInv
        <3>2. \A w \in Users : HasPage(w)' => PageFor(page'[w], Node[w], Target[w])
            BY <1>0, <2>1, <3>1 DEF PageInv
        <3> QED
            BY <1>0, <2>1, <3>2 DEF PageInv, PageFor, Place, ObjectOf
    <2>3. UnbornInv'
        BY <1>0, <2>1 DEF UnbornInv
    <2>4. ResidentInv'
        <3>1. \A o \in Objects : life[o] = "live" /\ Target[u] = o /\ Node[u] = Home[o] => page'[u] = o
            BY <2>1 DEF ResidentInv, LiveObjectStaysResident
        <3>2. ASSUME NEW o \in Objects, life[o] = "live", NEW w \in Users, Target[w] = o, Node[w] = Home[o],
                     HasPage(w)'
              PROVE  page'[w] = o
            <4>1. CASE w = u
                BY <3>1, <3>2, <4>1
            <4>2. CASE w # u
                <5>1. HasPage(w) /\ page'[w] = page[w]
                    BY <1>0, <2>1, <3>2, <4>2
                <5> QED
                    BY <3>2, <5>1 DEF ResidentInv, LiveObjectStaysResident
            <4> QED
                BY <4>1, <4>2
        <3>3. LiveObjectStaysResident'
            BY <1>0, <3>2 DEF ResidentInv, LiveObjectStaysResident
        <3> QED
            BY <1>0, <2>1, <3>3 DEF ResidentInv
    <2>5. ShareInv'
        BY <1>0, <2>1 DEF ShareInv, EntryOf
    <2> QED
        BY <2>2, <2>3, <2>4, <2>5
<1>3. CASE pc' = [pc EXCEPT ![u] = "failed"] /\ page' = page
    BY <1>0, <1>3, MovesOnStep DEF MovesOn, HasPage
<1> QED
    BY <1>1, <1>2, <1>3 DEF Resolve

LEMMA PageFaultStep ==
    ASSUME IInv, TypeOK', NEW u \in Users, PageFault(u)
    PROVE  IInv'
<1> USE UsersAssumption DEF IInv, TypeOK
<1>0. /\ UNCHANGED <<life, entry, pc, page, evicted>>
      /\ pc[u] = "missed" /\ fault'[u] # "none"
      /\ \A w \in Users : w # u => fault'[w] = fault[w]
    BY DEF PageFault, resolveVars
<1>1. PageInv'
    BY <1>0 DEF PageInv, HasPage, PageFor, Place, ObjectOf
<1>2. UnbornInv'
    BY <1>0 DEF UnbornInv
<1>3. ResidentInv'
    <2>1. life[Target[u]] = "live" => Node[u] # Home[Target[u]]
        BY <1>0 DEF ResidentInv
    <2> QED
        BY <1>0, <2>1 DEF ResidentInv, LiveObjectStaysResident, HasPage
<1>4. ShareInv'
    BY <1>0 DEF ShareInv, HasPage, EntryOf
<1> QED
    BY <1>1, <1>2, <1>3, <1>4

LEMMA InstallStep ==
    ASSUME IInv, TypeOK', NEW u \in Users, Install(u)
    PROVE  IInv'
<1> USE UsersAssumption DEF IInv, TypeOK
<1> DEFINE n == Node[u]
           o == Target[u]
           f == IF EntryOf(u) = None THEN u ELSE EntryOf(u)
<1>0. /\ UNCHANGED <<life, fault, evicted>>
      /\ pc[u] = "missed" /\ fault[u] # "none" /\ pc'[u] = "attached"
      /\ page'[u] = f /\ entry'[n][o] = f /\ (entry[n][o] # None => f = entry[n][o])
      /\ entry[n][o] = None => f = u
      /\ \A w \in Users : w # u => pc'[w] = pc[w] /\ page'[w] = page[w] /\ (HasPage(w)' <=> HasPage(w))
      /\ \A m \in Nodes : \A q \in Objects : entry'[m][q] = IF m = n /\ q = o THEN f ELSE entry[m][q]
    BY DEF Install, faultVars, EntryOf, HasPage
<1>1. PageFor(f, n, o) /\ (f \in Users => fault[f] # "none") /\ f # None
    <2>1. PageFor(u, n, o)
        BY NamesAssumption DEF PageFor, Pages, Place, ObjectOf
    <2> QED
        BY <1>0, <2>1, NamesAssumption DEF PageInv, Pages
<1>2. PageInv'
    <2>1. \A w \in Users : HasPage(w)' => PageFor(page'[w], Node[w], Target[w])
        BY <1>0, <1>1 DEF PageInv
    <2>2. ASSUME NEW m \in Nodes, NEW q \in Objects, entry'[m][q] # None
          PROVE  PageFor(entry'[m][q], m, q) /\ (entry'[m][q] \in Users => fault'[entry'[m][q]] # "none")
        <3>1. CASE m = n /\ q = o
            BY <1>0, <1>1, <3>1
        <3>2. CASE ~(m = n /\ q = o)
            <4>1. entry'[m][q] = entry[m][q] /\ fault' = fault
                BY <1>0, <3>2
            <4> QED
                BY <2>2, <4>1 DEF PageInv
        <3> QED
            BY <3>1, <3>2
    <2>3. \A w \in Users : fault'[w] # "none" => pc'[w] # "idle"
        BY <1>0 DEF PageInv
    <2> QED
        BY <2>1, <2>2, <2>3 DEF PageInv, PageFor, Place, ObjectOf
<1>3. life[o] # "unborn"
    BY <1>0 DEF UnbornInv
<1>4. UnbornInv'
    <2>1. ASSUME NEW q \in Objects, life[q] = "unborn"
          PROVE  /\ \A m \in Nodes : entry'[m][q] = None
                 /\ \A w \in Users : Target[w] = q => pc'[w] = "idle"
        <3>1. q # o
            BY <1>3, <2>1
        <3> QED
            BY <1>0, <2>1, <3>1 DEF UnbornInv
    <2> QED
        BY <1>0, <2>1 DEF UnbornInv
<1>5. life[o] = "live" => n # Home[o]
    BY <1>0 DEF ResidentInv
<1>6. ResidentInv'
    <2>1. ASSUME NEW q \in Objects, life[q] = "live"
          PROVE  entry'[Home[q]][q] = q
        <3>1. ~(Home[q] = n /\ q = o)
            BY <1>5, <2>1
        <3>2. entry'[Home[q]][q] = entry[Home[q]][q]
            BY <1>0, <3>1
        <3> QED
            BY <2>1, <3>2 DEF ResidentInv, LiveObjectStaysResident
    <2>2. ASSUME NEW q \in Objects, life[q] = "live", NEW w \in Users, Target[w] = q, Node[w] = Home[q]
          PROVE  /\ w # u /\ fault'[w] = "none" /\ (HasPage(w)' => page'[w] = q)
                 /\ pc'[w] # "missed"
        <3>1. w # u
            BY <1>5, <2>2
        <3> QED
            BY <1>0, <2>2, <3>1 DEF ResidentInv, LiveObjectStaysResident
    <2>3. LiveObjectStaysResident'
        BY <1>0, <2>1, <2>2 DEF LiveObjectStaysResident
    <2> QED
        BY <1>0, <2>2, <2>3 DEF ResidentInv
<1>7. ShareInv'
    <2>1. ASSUME NEW w \in Users, HasPage(w)', Target[w] \notin evicted[Node[w]]
          PROVE  entry'[Node[w]][Target[w]] = page'[w]
        <3>1. CASE w = u
            BY <1>0, <3>1
        <3>2. CASE w # u
            <4>1. HasPage(w) /\ page'[w] = page[w]
                BY <1>0, <2>1, <3>2
            <4>2. entry[Node[w]][Target[w]] = page[w] /\ page[w] # None
                BY <2>1, <4>1, NamesAssumption DEF ShareInv, EntryOf, PageInv, PageFor
            <4>3. Node[w] = n /\ Target[w] = o => f = entry[n][o]
                BY <1>0, <4>2
            <4>4. entry'[Node[w]][Target[w]] = entry[Node[w]][Target[w]]
                BY <1>0, <4>3
            <4> QED
                BY <4>1, <4>2, <4>4
        <3> QED
            BY <3>1, <3>2
    <2> QED
        BY <1>0, <2>1 DEF ShareInv, EntryOf
<1> QED
    BY <1>2, <1>4, <1>6, <1>7

LEMMA CreateStep ==
    ASSUME IInv, TypeOK', NEW o \in Objects, Create(o)
    PROVE  IInv'
<1> USE UsersAssumption DEF IInv, TypeOK
<1>0. /\ UNCHANGED <<pc, page, fault, evicted>>
      /\ life[o] = "unborn" /\ life'[o] = "live"
      /\ \A q \in Objects : q # o => life'[q] = life[q]
      /\ \A m \in Nodes : \A q \in Objects : entry'[m][q] = IF m = Home[o] /\ q = o THEN o ELSE entry[m][q]
    BY DEF Create, resolveVars, faultVars
<1>1. /\ \A m \in Nodes : entry[m][o] = None
      /\ \A u \in Users : Target[u] = o => pc[u] = "idle" /\ fault[u] = "none" /\ ~HasPage(u)
    BY <1>0 DEF UnbornInv, PageInv, HasPage
<1>2. PageInv'
    <2>1. \A m \in Nodes, q \in Objects : entry'[m][q] # None =>
              PageFor(entry'[m][q], m, q) /\ (entry'[m][q] \in Users => fault'[entry'[m][q]] # "none")
        <3>1. PageFor(o, Home[o], o) /\ o \notin Users
            BY NamesAssumption DEF PageFor, Pages, Place, ObjectOf
        <3> QED
            BY <1>0, <1>1, <3>1 DEF PageInv
    <2> QED
        BY <1>0, <2>1 DEF PageInv, HasPage, PageFor, Place, ObjectOf
<1>3. UnbornInv'
    <2>1. ASSUME NEW q \in Objects, life'[q] = "unborn"
          PROVE  /\ \A m \in Nodes : entry'[m][q] = None
                 /\ \A u \in Users : Target[u] = q => pc'[u] = "idle"
        <3>1. q # o /\ life[q] = "unborn"
            BY <1>0, <2>1
        <3> QED
            BY <1>0, <3>1 DEF UnbornInv
    <2> QED
        BY <2>1 DEF UnbornInv
<1>4. ResidentInv'
    BY <1>0, <1>1 DEF ResidentInv, LiveObjectStaysResident, HasPage
<1>5. ShareInv'
    BY <1>0, <1>1 DEF ShareInv, EntryOf, HasPage
<1> QED
    BY <1>2, <1>3, <1>4, <1>5

LEMMA FinalizeStep ==
    ASSUME IInv, TypeOK', NEW o \in Objects, Finalize(o)
    PROVE  IInv'
<1> USE UsersAssumption DEF IInv, TypeOK
<1>0. /\ UNCHANGED <<entry, pc, page, fault, evicted>>
      /\ life'[o] = "finalized"
      /\ \A q \in Objects : q # o => life'[q] = life[q]
    BY DEF Finalize, resolveVars, faultVars
<1>1. PageInv'
    BY <1>0 DEF PageInv, HasPage, PageFor, Place, ObjectOf
<1>2. UnbornInv'
    BY <1>0 DEF UnbornInv
<1>3. ResidentInv'
    BY <1>0 DEF ResidentInv, LiveObjectStaysResident, HasPage
<1>4. ShareInv'
    BY <1>0 DEF ShareInv, EntryOf, HasPage
<1> QED
    BY <1>1, <1>2, <1>3, <1>4

LEMMA EvictStep ==
    ASSUME IInv, TypeOK', NEW n \in Nodes, NEW o \in Objects, Evict(n, o)
    PROVE  IInv'
<1> USE UsersAssumption DEF IInv, TypeOK
<1>0. /\ UNCHANGED <<life, pc, page, fault>>
      /\ entry[n][o] # None /\ Unique(entry[n][o])
      /\ \A m \in Nodes : \A q \in Objects : entry'[m][q] = IF m = n /\ q = o THEN None ELSE entry[m][q]
      /\ o \in evicted'[n]
      /\ \A m \in Nodes : evicted[m] \subseteq evicted'[m]
    BY DEF Evict, Evictable, resolveVars, faultVars
<1>1. PageInv'
    BY <1>0 DEF PageInv, HasPage, PageFor, Place, ObjectOf
<1>2. UnbornInv'
    BY <1>0 DEF UnbornInv
<1>3. ResidentInv'
    <2>1. life[o] = "live" => n # Home[o]
        BY <1>0 DEF ResidentInv, LiveObjectStaysResident, Unique
    <2>2. ASSUME NEW q \in Objects, life[q] = "live"
          PROVE  entry'[Home[q]][q] = q
        <3>1. entry'[Home[q]][q] = entry[Home[q]][q]
            BY <1>0, <2>1, <2>2
        <3> QED
            BY <2>2, <3>1 DEF ResidentInv, LiveObjectStaysResident
    <2> QED
        BY <1>0, <2>2 DEF ResidentInv, LiveObjectStaysResident, HasPage
<1>4. ShareInv'
    <2>1. ASSUME NEW w \in Users, HasPage(w), Target[w] \notin evicted'[Node[w]]
          PROVE  entry'[Node[w]][Target[w]] = page[w]
        <3>1. Node[w] # n \/ Target[w] # o
            BY <1>0, <2>1
        <3> QED
            BY <1>0, <2>1, <3>1 DEF ShareInv, EntryOf
    <2> QED
        BY <1>0, <2>1 DEF ShareInv, EntryOf, HasPage
<1> QED
    BY <1>1, <1>2, <1>3, <1>4

LEMMA InvUserStep ==
    ASSUME IInv, NEW u \in Users, UserStep(u)
    PROVE  IInv'
<1>0. TypeOK /\ TypeOK'
    BY TypeUserStep DEF IInv
<1>1. CASE Acquire(u) \/ FetchInstance(u) \/ AllocatePage(u) \/ CopyDone(u) \/ PageFaultFails(u)
    <2>1. Quiet
        BY <1>0, <1>1 DEF Quiet, Acquire, FetchInstance, AllocatePage, CopyDone, PageFaultFails,
                          faultVars, resolveVars, TypeOK
    <2> QED
        BY <1>0, <2>1, QuietStep
<1>2. CASE PageFaultThrows(u) \/ Deliver(u) \/ Access(u)
    <2>1. MovesOn(u)
        BY <1>0, <1>2 DEF MovesOn, HasPage, PageFaultThrows, Deliver, Access, faultVars, TypeOK
    <2> QED
        BY <1>0, <2>1, MovesOnStep
<1> QED
    BY <1>0, <1>1, <1>2, ResolveStep, PageFaultStep, InstallStep DEF UserStep

LEMMA InvMemoryStep ==
    ASSUME IInv, MemoryStep
    PROVE  IInv'
<1>0. TypeOK /\ TypeOK'
    BY TypeMemoryStep DEF IInv
<1>1. ASSUME NEW n \in Nodes, AllocateNull(n)
      PROVE  IInv'
    <2>1. Quiet
        BY <1>1 DEF Quiet, AllocateNull, faultVars, resolveVars
    <2> QED
        BY <1>0, <2>1, QuietStep
<1> QED
    BY <1>0, <1>1, CreateStep, FinalizeStep, EvictStep DEF MemoryStep

LEMMA InvStutter ==
    ASSUME IInv, UNCHANGED vars
    PROVE  IInv'
<1>1. TypeOK' /\ Quiet
    BY TypeStutter DEF IInv, Quiet, vars
<1> QED
    BY <1>1, QuietStep

LEMMA InvNext == IInv /\ [Next]_vars => IInv'
BY InvUserStep, InvMemoryStep, InvStutter DEF Next, Terminated

LEMMA InvCorrect == Spec => []IInv
BY InvInit, InvNext, PTL DEF Spec

-----------------------------------------------------------------------------
(***************************************************************************)
(* The properties                                                          *)
(***************************************************************************)

\* Eviction, page faults and finalization of other objects never cost a live
\* object its place in the table of its home node.
THEOREM ResidentCorrect == Spec => []LiveObjectStaysResident
<1>1. IInv => LiveObjectStaysResident
    BY DEF IInv, ResidentInv
<1> QED
    BY InvCorrect, <1>1, PTL

\* The page faults of an object on a node may race: whoever loses is given the
\* winner's page.
THEOREM SharePageCorrect == Spec => []SharePageUnlessEvicted
<1>1. IInv => SharePageUnlessEvicted
    BY DEF IInv, ShareInv, SharePageUnlessEvicted, EntryOf
<1> QED
    BY InvCorrect, <1>1, PTL

\* No step of the code repairs the table entry of a failed page fault.
THEOREM FailureIsPermanentCorrect == Spec => FailureIsPermanent
<1>1. ASSUME IInv, [Next]_vars, NEW n \in Nodes, NEW o \in Objects, FailedEntry(n, o)
      PROVE  FailedEntry(n, o)'
    <2> USE UsersAssumption DEF IInv, TypeOK
    <2>1. entry[n][o] \in Users /\ fault[entry[n][o]] = "failed" /\ entry[n][o] # None
        BY <1>1 DEF FailedEntry, Failed
    <2>2. ASSUME NEW u \in Users, UserStep(u)
          PROVE  entry'[n][o] = entry[n][o] /\ fault'[entry[n][o]] = "failed"
        <3>1. CASE Install(u)
            <4>1. Node[u] = n /\ Target[u] = o => EntryOf(u) = entry[n][o]
                BY DEF EntryOf
            <4>2. entry'[n][o] = entry[n][o]
                BY <2>1, <3>1, <4>1, <1>1 DEF Install
            <4> QED
                BY <2>1, <3>1, <4>2 DEF Install, faultVars
        <3>2. CASE ~Install(u)
            <4>1. entry' = entry
                BY <2>2, <3>2 DEF UserStep, Acquire, Resolve, PageFault, PageFaultThrows, Deliver,
                                  Access, FetchInstance, AllocatePage, CopyDone, PageFaultFails
            <4>2. \/ fault' = fault
                  \/ fault[u] # "failed" /\ \E x \in FaultStates : fault' = [fault EXCEPT ![u] = x]
                BY <2>2, <3>2 DEF UserStep, Acquire, Resolve, PageFault, PageFaultThrows, Deliver,
                                  Access, FetchInstance, AllocatePage, CopyDone, PageFaultFails,
                                  faultVars, FaultStates
            <4> QED
                BY <1>1, <2>1, <4>1, <4>2
        <3> QED
            BY <3>1, <3>2
    <2>3. ASSUME MemoryStep
          PROVE  entry'[n][o] = entry[n][o] /\ fault' = fault
        <3>1. ASSUME NEW q \in Objects, Create(q)
              PROVE  entry'[n][o] = entry[n][o] /\ fault' = fault
            BY <1>1, <2>1, <3>1 DEF Create, UnbornInv, faultVars
        <3>2. ASSUME NEW m \in Nodes, NEW q \in Objects, Evict(m, q)
              PROVE  entry'[n][o] = entry[n][o] /\ fault' = fault
            BY <2>1, <3>2, <1>1 DEF Evict, Evictable, Ready, faultVars
        <3> QED
            BY <2>3, <3>1, <3>2 DEF MemoryStep, Finalize, AllocateNull, faultVars
    <2>4. CASE UNCHANGED vars
        BY <2>1, <2>4 DEF vars, FailedEntry, Failed
    <2> QED
        BY <1>1, <2>1, <2>2, <2>3, <2>4 DEF Next, Terminated, FailedEntry, Failed
<1>2. IInv /\ [Next]_vars =>
        [\A n \in Nodes, o \in Objects : FailedEntry(n, o) => FailedEntry(n, o)']_vars
    BY <1>1
<1> QED
    BY InvCorrect, <1>2, PTL DEF Spec, FailureIsPermanent

-----------------------------------------------------------------------------
(***************************************************************************)
(* Who reads an object at home reads the last write                        *)
(***************************************************************************)

\* Steps of users of other objects do not concern object o.
LEMMA ElsewhereStep ==
    ASSUME IInv, NEW o \in Objects, AtHome(o), NEW u \in Users,
           o \in evicted[Home[o]] \/ Target[u] # o,
           UNCHANGED <<life, evicted>>, entry'[Home[o]][o] = entry[Home[o]][o],
           content'[o] = content[o], latest'[o] = latest[o],
           \A w \in Users : w # u => pc'[w] = pc[w] /\ page'[w] = page[w] /\ fault'[w] = fault[w]
    PROVE  AtHome(o)'
BY DEF AtHome, HasPage

\* A page fault for an object is under way only after it was evicted.
LEMMA FaultAfterEviction ==
    ASSUME NEW o \in Objects, AtHome(o), NEW u \in Users, fault[u] # "none" \/ pc[u] = "missed"
    PROVE  o \in evicted[Home[o]] \/ Target[u] # o
BY DEF AtHome

LEMMA AtHomeUserStep ==
    ASSUME IInv, NEW o \in Objects, o \in UsedAtHome, AtHome(o), NEW u \in Users, UserStep(u)
    PROVE  AtHome(o)'
<1> USE UsersAssumption
<1>t. TypeOK
    BY DEF IInv
<1>1. CASE Acquire(u)
    BY <1>1 DEF Acquire, AtHome, HasPage, faultVars, dataVars
<1>2. CASE Resolve(u) \/ Deliver(u)
    <2>1. /\ UNCHANGED <<life, entry, fault, content, latest, evicted>>
          /\ \A w \in Users : w # u => pc'[w] = pc[w] /\ page'[w] = page[w]
        BY <1>t, <1>2 DEF Resolve, Deliver, faultVars, dataVars, TypeOK
    <2>2. CASE o \in evicted[Home[o]] \/ Target[u] # o
        BY <2>1, <2>2, ElsewhereStep
    <2>3. CASE o \notin evicted[Home[o]] /\ Target[u] = o
        <3>1. Node[u] = Home[o]
            BY <2>3 DEF UsedAtHome
        <3>2. CASE Resolve(u)
            <4>1. EntryOf(u) = o /\ o # None
                BY <2>3, <3>1, <3>2, NamesAssumption DEF Resolve, AtHome, EntryOf, Pages
            <4>2. pc'[u] # "missed" /\ (pc'[u] \in {"attached", "resolved"} => page'[u] = o)
                BY <1>t, <3>2, <4>1 DEF Resolve, TypeOK
            <4> QED
                BY <2>1, <2>3, <4>2 DEF AtHome, HasPage
        <3>3. CASE Deliver(u)
            <4>1. pc'[u] # "missed" /\ HasPage(u) /\ page' = page
                BY <1>t, <3>3 DEF Deliver, TypeOK, HasPage
            <4> QED
                BY <2>1, <2>3, <4>1 DEF AtHome, HasPage
        <3> QED
            BY <1>2, <3>2, <3>3
    <2> QED
        BY <2>2, <2>3
<1>3. CASE PageFault(u) \/ PageFaultThrows(u) \/ Install(u)
    <2>1. o \in evicted[Home[o]] \/ Target[u] # o
        BY <1>3, FaultAfterEviction DEF PageFault, PageFaultThrows, Install
    <2>2. CASE o \in evicted[Home[o]]
        BY <1>3, <2>2 DEF PageFault, PageFaultThrows, Install, AtHome, resolveVars, faultVars, dataVars
    <2>3. CASE Target[u] # o
        <3>1. /\ UNCHANGED <<life, evicted, content, latest>>
              /\ \A w \in Users : w # u => pc'[w] = pc[w] /\ page'[w] = page[w] /\ fault'[w] = fault[w]
            BY <1>t, <1>3 DEF PageFault, PageFaultThrows, Install, resolveVars, faultVars, dataVars, TypeOK
        <3>2. entry'[Home[o]][o] = entry[Home[o]][o]
            <4>1. CASE entry' = entry
                BY <4>1
            <4>2. CASE Install(u)
                BY <1>t, <2>3, <4>2 DEF Install, TypeOK
            <4> QED
                BY <1>3, <4>1, <4>2 DEF PageFault, PageFaultThrows
        <3> QED
            BY <2>3, <3>1, <3>2, ElsewhereStep
    <2> QED
        BY <2>1, <2>2, <2>3
<1>4. CASE FetchInstance(u) \/ AllocatePage(u) \/ CopyDone(u) \/ PageFaultFails(u)
    <2>1. o \in evicted[Home[o]] \/ Target[u] # o
        BY <1>4, FaultAfterEviction DEF FetchInstance, AllocatePage, CopyDone, PageFaultFails
    <2>2. /\ UNCHANGED <<life, entry, pc, page, evicted, latest>>
          /\ \A w \in Users : w # u => fault'[w] = fault[w]
        BY <1>t, <1>4 DEF FetchInstance, AllocatePage, CopyDone, PageFaultFails, resolveVars, dataVars, TypeOK
    <2>3. content'[o] = content[o]
        <3>1. o # u
            BY NamesAssumption
        <3> QED
            BY <1>t, <1>4, <3>1 DEF FetchInstance, AllocatePage, CopyDone, PageFaultFails, dataVars, TypeOK, Pages
    <2> QED
        BY <2>1, <2>2, <2>3, ElsewhereStep
<1>5. CASE Access(u)
    <2>1. /\ UNCHANGED <<life, entry, page, fault, evicted>>
          /\ pc[u] = "resolved" /\ pc'[u] = "done"
          /\ \A w \in Users : w # u => pc'[w] = pc[w]
        BY <1>t, <1>5 DEF Access, faultVars, TypeOK
    <2>2. PageFor(page[u], Node[u], Target[u]) /\ page[u] \in Pages
        BY <2>1 DEF IInv, PageInv, HasPage, PageFor
    <2>3. CASE UNCHANGED dataVars
        BY <2>1, <2>3 DEF AtHome, HasPage, dataVars
    <2>4. CASE /\ latest' = [latest EXCEPT ![Target[u]] = @ + 1]
               /\ content' = [content EXCEPT ![page[u]] = IF @ = 0 THEN 0 ELSE latest[Target[u]] + 1]
        <3>1. CASE Target[u] # o
            <4>1. page[u] # o
                BY <2>2, <3>1 DEF PageFor, ObjectOf
            <4>2. latest'[o] = latest[o] /\ content'[o] = content[o]
                BY <1>t, <2>4, <3>1, <4>1 DEF TypeOK, Pages
            <4> QED
                BY <2>1, <3>1, <4>2, ElsewhereStep
        <3>2. CASE Target[u] = o /\ o \notin evicted[Home[o]]
            <4>1. page[u] = o /\ content[o] # 0 /\ latest[o] \in Nat
                BY <1>t, <2>1, <3>2 DEF AtHome, HasPage, TypeOK
            <4>2. latest'[o] = latest[o] + 1 /\ content'[o] = latest[o] + 1
                BY <1>t, <2>4, <3>2, <4>1 DEF TypeOK, Pages
            <4> QED
                BY <2>1, <3>2, <4>1, <4>2 DEF AtHome, HasPage
        <3>3. CASE o \in evicted[Home[o]]
            BY <2>1, <3>3 DEF AtHome
        <3> QED
            BY <3>1, <3>2, <3>3
    <2> QED
        BY <1>5, <2>3, <2>4 DEF Access
<1> QED
    BY <1>1, <1>2, <1>3, <1>4, <1>5 DEF UserStep

LEMMA AtHomeMemoryStep ==
    ASSUME IInv, NEW o \in Objects, AtHome(o), MemoryStep
    PROVE  AtHome(o)'
<1> USE UsersAssumption
<1>t. TypeOK
    BY DEF IInv
<1>1. ASSUME NEW q \in Objects, Create(q) PROVE AtHome(o)'
    <2>1. /\ UNCHANGED <<pc, page, fault, content, latest, evicted>>
          /\ life[q] = "unborn" /\ life'[q] = "live" /\ entry'[Home[q]][q] = q
          /\ q # o => life'[o] = life[o] /\ entry'[Home[o]][o] = entry[Home[o]][o]
        BY <1>t, <1>1 DEF Create, resolveVars, faultVars, dataVars, TypeOK
    <2>2. q = o => o \notin evicted[Home[o]]
        BY <2>1 DEF AtHome
    <2> QED
        BY <2>1, <2>2 DEF AtHome, HasPage
<1>2. ASSUME NEW q \in Objects, Finalize(q) PROVE AtHome(o)'
    <2>1. /\ UNCHANGED <<entry, pc, page, fault, content, latest, evicted>>
          /\ life'[o] = life[o] \/ (life[o] # "unborn" /\ life'[o] = "finalized")
        BY <1>t, <1>2 DEF Finalize, resolveVars, faultVars, dataVars, TypeOK
    <2> QED
        BY <2>1 DEF AtHome, HasPage
<1>3. ASSUME NEW n \in Nodes, AllocateNull(n) PROVE AtHome(o)'
    BY <1>3 DEF AllocateNull, AtHome, HasPage, resolveVars, faultVars, dataVars
<1>4. ASSUME NEW n \in Nodes, NEW q \in Objects, Evict(n, q) PROVE AtHome(o)'
    <2>1. /\ UNCHANGED <<life, pc, page, fault, content, latest>>
          /\ entry[n][q] # None /\ Unique(entry[n][q])
        BY <1>4 DEF Evict, Evictable, resolveVars, faultVars, dataVars
    <2>2. CASE n = Home[o] /\ q = o
        <3>1. o \in evicted'[Home[o]]
            BY <1>t, <1>4, <2>2 DEF Evict, TypeOK
        <3>2. life[o] = "finalized"
            <4>1. life[o] = "live" => entry[n][q] = o
                BY <2>2 DEF IInv, ResidentInv, LiveObjectStaysResident
            <4>2. life[o] # "unborn"
                BY <2>1, <2>2 DEF IInv, UnbornInv
            <4> QED
                BY <1>t, <2>1, <4>1, <4>2 DEF Unique, TypeOK, Lives
        <3> QED
            BY <2>1, <3>1, <3>2 DEF AtHome
    <2>3. CASE ~(n = Home[o] /\ q = o)
        <3>1. entry'[Home[o]][o] = entry[Home[o]][o] /\ (o \in evicted'[Home[o]] <=> o \in evicted[Home[o]])
            BY <1>t, <1>4, <2>3 DEF Evict, TypeOK
        <3> QED
            BY <2>1, <3>1 DEF AtHome, HasPage
    <2> QED
        BY <2>2, <2>3
<1> QED
    BY <1>1, <1>2, <1>3, <1>4 DEF MemoryStep

LEMMA AtHomeCorrect == Spec => []AtHomeInv
<1>1. Init => AtHomeInv
    BY UsersAssumption DEF Init, AtHomeInv, AtHome, HasPage, Pages, UsedAtHome
<1>2. IInv /\ AtHomeInv /\ [Next]_vars => AtHomeInv'
    <2> SUFFICES ASSUME IInv, AtHomeInv, [Next]_vars, NEW o \in Objects, o \in UsedAtHome
                 PROVE  AtHome(o)'
        BY DEF AtHomeInv, UsedAtHome
    <2>1. AtHome(o)
        BY DEF AtHomeInv
    <2>2. CASE UNCHANGED vars
        BY <2>1, <2>2 DEF vars, AtHome, HasPage
    <2> QED
        BY <2>1, <2>2, AtHomeUserStep, AtHomeMemoryStep DEF Next, Terminated
<1> QED
    BY <1>1, <1>2, InvCorrect, PTL DEF Spec

LEMMA AllUsedAtHome == ASSUME UsersAtHome PROVE UsedAtHome = Objects
BY DEF UsersAtHome, UsedAtHome

\* As long as kernels run where their objects live, everybody reads the last write
\* of an object under its token, but for objects finalized and then evicted.
THEOREM ReadsLastWriteUnlessEvictedCorrect ==
    ASSUME UsersAtHome PROVE Spec => []ReadsLastWriteUnlessEvicted
<1>1. AtHomeInv => ReadsLastWriteUnlessEvicted
    BY AllUsedAtHome, UsersAssumption
    DEF UsersAtHome, AtHomeInv, AtHome, ReadsLastWriteUnlessEvicted, HasPage
<1> QED
    BY <1>1, AtHomeCorrect, PTL

\* The page of an object that does not exist yet takes no memory.
LEMMA UnbornHasNoMemory ==
    ASSUME IInv, NEW o \in Objects, life[o] = "unborn"
    PROVE  ~HasMemory(o)
<1> USE UsersAssumption
<1>1. o \notin Users /\ o # None
    BY NamesAssumption DEF Pages
<1>2. entry[Home[o]][o] = None
    BY DEF IInv, UnbornInv
<1>3. \A u \in Users : Target[u] = o => pc[u] = "idle" /\ fault[u] = "none"
    BY DEF IInv, UnbornInv, PageInv
<1>4. \A u \in Users : ~(pc[u] \in {"attached", "resolved"} /\ page[u] = o)
    BY <1>1, <1>3 DEF IInv, PageInv, HasPage, PageFor, ObjectOf
<1>5. ~(\E u \in instance : Target[u] = o)
    BY <1>3 DEF IInv, TypeOK
<1> QED
    BY <1>1, <1>2, <1>4, <1>5 DEF HasMemory, InUse, Place, ObjectOf

\* A node is not full if one of the pages it has room for is without memory.
LEMMA RoomLeft ==
    ASSUME NEW n \in Nodes, NEW S, IsFiniteSet(S), Cardinality(S) <= Capacity[n],
           {p \in Pages : Place(p) = n /\ HasMemory(p)} \subseteq S,
           NEW q \in S, ~HasMemory(q)
    PROVE  ~Full(n)
<1> DEFINE Used == {p \in Pages : Place(p) = n /\ HasMemory(p)}
<1>1. Used \subseteq S \ {q}
    OBVIOUS
<1>2. /\ IsFiniteSet(S \ {q}) /\ Cardinality(S \ {q}) = Cardinality(S) - 1
      /\ Cardinality(S) \in Nat
    BY FS_RemoveElement, FS_CardinalityType
<1>3. Cardinality(Used) <= Cardinality(S \ {q}) /\ Cardinality(Used) \in Nat
    BY <1>1, <1>2, FS_Subset, FS_CardinalityType
<1>4. Capacity[n] \in Nat
    BY UsersAssumption
<1> QED
    BY <1>2, <1>3, <1>4 DEF Full

\* A node with room for all its objects is never full if they are used at home only.
LEMMA NeverFullAtHome ==
    ASSUME UsersAtHome, AmpleMemory, IInv, AtHomeInv, NothingEvicted, NEW n \in Nodes, Allocating(n)
    PROVE  ~Full(n)
<1> USE UsersAssumption
<1> DEFINE Mine == {o \in Objects : Home[o] = n}
<1>1. \A u \in Users : fault[u] = "none"
    BY AllUsedAtHome DEF AtHomeInv, AtHome, NothingEvicted
<1>2. PICK o \in Objects : Home[o] = n /\ life[o] = "unborn"
    BY <1>1 DEF Allocating
<1>3. {p \in Pages : Place(p) = n /\ HasMemory(p)} \subseteq Mine
    BY <1>1 DEF HasMemory, Pages, Place
<1>4. IsFiniteSet(Mine) /\ o \in Mine
    BY <1>2, FS_Subset DEF AmpleMemory
<1>5. ~HasMemory(o) /\ Cardinality(Mine) <= Capacity[n]
    BY <1>2, UnbornHasNoMemory DEF AmpleMemory
<1> QED
    BY <1>3, <1>4, <1>5, RoomLeft

\* Nor is one with room for the copies of everybody who may ask for one there.
LEMMA NeverFullWithCopies ==
    ASSUME RoomForCopies, IInv, NEW n \in Nodes, Allocating(n)
    PROVE  ~Full(n)
<1> USE UsersAssumption
<1> DEFINE Mine == {p \in Pages : Place(p) = n}
<1>1. PICK p \in Mine : ~HasMemory(p)
    <2>1. CASE \E o \in Objects : Home[o] = n /\ life[o] = "unborn"
        BY <2>1, UnbornHasNoMemory DEF Pages, Place
    <2>2. CASE \E u \in Users : Node[u] = n /\ fault[u] = "allocating"
        BY <2>2, NamesAssumption DEF HasMemory, Pages, Place
    <2> QED
        BY <2>1, <2>2 DEF Allocating
<1>2. IsFiniteSet(Mine) /\ Cardinality(Mine) <= Capacity[n]
    BY FS_Subset DEF RoomForCopies
<1>3. {q \in Pages : Place(q) = n /\ HasMemory(q)} \subseteq Mine
    OBVIOUS
<1> QED
    BY <1>1, <1>2, <1>3, RoomLeft

\* As long as no node that allocates is full, nothing is evicted and no allocation
\* fails.
LEMMA KeepsOutOfTrouble ==
    ASSUME NeverOutOfMemory, [Next]_vars, \A n \in Nodes : Allocating(n) => ~Full(n)
    PROVE  NeverOutOfMemory'
<1>1. ASSUME NEW n \in Nodes PROVE ~AllocateNull(n) /\ \A o \in Objects : ~Evict(n, o)
    BY DEF Evict, AllocateNull
<1>2. UNCHANGED <<evicted, crashed>>
    BY <1>1 DEF Next, UserStep, MemoryStep, Terminated, Acquire, Resolve, PageFault, PageFaultThrows,
        Install, Deliver, Access, FetchInstance, AllocatePage, CopyDone, PageFaultFails, Create,
        Finalize, vars
<1> QED
    BY <1>2 DEF NeverOutOfMemory, NothingEvicted

\* Memory that suffices for what can be there at once is never exhausted: handles are
\* given up as they should be, failed page faults included.
THEOREM NeverOutOfMemoryCorrect ==
    ASSUME RoomForCopies \/ (UsersAtHome /\ AmpleMemory)
    PROVE  Spec => []NeverOutOfMemory
<1>1. Init => NeverOutOfMemory
    BY Zenon DEF Init, NeverOutOfMemory, NothingEvicted
<1>2. IInv /\ AtHomeInv /\ NeverOutOfMemory /\ [Next]_vars => NeverOutOfMemory'
    BY NeverFullAtHome, NeverFullWithCopies, KeepsOutOfTrouble DEF NeverOutOfMemory
<1> QED
    BY <1>1, <1>2, InvCorrect, AtHomeCorrect, PTL DEF Spec

\* On one node with enough memory everybody reads the last write under the token,
\* also of objects that a copy of their tensor has finalized.
THEOREM ReadsLastWriteCorrect ==
    ASSUME UsersAtHome, AmpleMemory PROVE Spec => []ReadsLastWrite
<1>1. ReadsLastWriteUnlessEvicted /\ NeverOutOfMemory => ReadsLastWrite
    BY UsersAssumption DEF ReadsLastWriteUnlessEvicted, NeverOutOfMemory, NothingEvicted, ReadsLastWrite
<1> QED
    BY <1>1, ReadsLastWriteUnlessEvictedCorrect, NeverOutOfMemoryCorrect, PTL

-----------------------------------------------------------------------------
(***************************************************************************)
(* The address spaces implement a memory with one value per object         *)
(***************************************************************************)

\* A page stays complete, and a user that has its page keeps it.
LEMMA CompletePages ==
    ASSUME TypeOK, [Next]_vars, NEW u \in Users
    PROVE  /\ fault[u] = "ready" => fault'[u] = "ready"
           /\ pc[u] = "resolved" => page'[u] = page[u]
<1>1. ASSUME NEW w \in Users, UserStep(w)
      PROVE  /\ fault[u] = "ready" => fault'[u] = "ready"
             /\ pc[u] = "resolved" => page'[u] = page[u]
    <2>1. CASE Acquire(w) \/ Resolve(w) \/ PageFault(w) \/ PageFaultThrows(w) \/ Install(w)
        BY <2>1 DEF TypeOK, Acquire, Resolve, PageFault, PageFaultThrows, Install, faultVars, resolveVars
    <2>2. CASE Deliver(w) \/ Access(w)
        BY <2>2 DEF TypeOK, Deliver, Access, faultVars
    <2>3. CASE FetchInstance(w) \/ AllocatePage(w) \/ CopyDone(w) \/ PageFaultFails(w)
        BY <2>3 DEF TypeOK, FetchInstance, AllocatePage, CopyDone, PageFaultFails, resolveVars
    <2> QED
        BY <1>1, <2>1, <2>2, <2>3 DEF UserStep
<1>2. ASSUME MemoryStep \/ UNCHANGED vars
      PROVE  fault' = fault /\ page' = page
    BY <1>2 DEF MemoryStep, Create, Finalize, AllocateNull, Evict, faultVars, resolveVars, vars
<1> QED
    BY <1>1, <1>2 DEF Next, Terminated

\* Who is given its page is given a complete one.
LEMMA AccessedIsReady ==
    ASSUME IInv, CopyInv, [Next]_vars, NEW u \in Users, pc'[u] = "resolved"
    PROVE  Ready(page[u])' /\ (pc[u] # "resolved" => Ready(page'[u]))
<1>t. TypeOK
    BY DEF IInv
<1>1. CASE pc[u] = "resolved"
    <2>1. Ready(page[u]) /\ page'[u] = page[u]
        BY <1>1, <1>t, CompletePages DEF CopyInv
    <2>2. page[u] \in Users => fault'[page[u]] = "ready"
        BY <1>t, <2>1, CompletePages DEF Ready
    <2> QED
        BY <1>1, <2>1, <2>2 DEF Ready
<1>2. CASE pc[u] # "resolved"
    <2>1. fault' = fault /\ Ready(page'[u])
        <3>1. ASSUME NEW w \in Users, UserStep(w)
              PROVE  w = u /\ (Resolve(u) \/ Deliver(u))
            <4>1. \/ UNCHANGED pc
                  \/ \E x \in UserStates \ {"resolved"} : pc' = [pc EXCEPT ![w] = x]
                  \/ Resolve(w) \/ Deliver(w)
                BY <3>1 DEF UserStep, Acquire, PageFault, PageFaultThrows, Install, Access, FetchInstance,
                            AllocatePage, CopyDone, PageFaultFails, resolveVars, UserStates
            <4>2. Resolve(w) \/ Deliver(w) => \E x \in UserStates : pc' = [pc EXCEPT ![w] = x]
                BY DEF Resolve, Deliver, UserStates
            <4> QED
                BY <1>t, <1>2, <4>1, <4>2 DEF TypeOK
        <3>2. ~MemoryStep /\ ~UNCHANGED vars
            BY <1>2 DEF MemoryStep, Create, Finalize, AllocateNull, Evict, resolveVars, vars
        <3>3. Resolve(u) \/ Deliver(u)
            BY <3>1, <3>2 DEF Next, Terminated
        <3>4. CASE Resolve(u)
            BY <1>t, <3>4 DEF Resolve, TypeOK, faultVars
        <3>5. CASE Deliver(u)
            BY <1>t, <3>5 DEF Deliver, TypeOK, faultVars
        <3> QED
            BY <3>3, <3>4, <3>5
    <2> QED
        BY <1>2, <2>1 DEF Ready
<1> QED
    BY <1>1, <1>2

\* Only an access writes the object, and copies are made of earlier versions.
LEMMA CopiesBehind ==
    ASSUME IInv, CopyInv, [Next]_vars, NEW p \in Pages
    PROVE  content'[p] <= latest'[ObjectOf(p)]
<1> USE UsersAssumption
<1>t. TypeOK /\ ObjectOf(p) \in Objects /\ content[p] <= latest[ObjectOf(p)]
    BY DEF IInv, CopyInv, ObjectOf, Pages
<1>n. content[p] \in Nat /\ \A o \in Objects : latest[o] \in Nat
    BY <1>t DEF TypeOK
<1>1. ASSUME NEW u \in Users, Access(u) PROVE content'[p] <= latest'[ObjectOf(p)]
    <2>1. PageFor(page[u], Node[u], Target[u])
        BY <1>1 DEF Access, IInv, PageInv, HasPage
    <2>2. CASE UNCHANGED dataVars
        BY <1>t, <2>2 DEF dataVars
    <2>3. CASE /\ latest' = [latest EXCEPT ![Target[u]] = @ + 1]
               /\ content' = [content EXCEPT ![page[u]] = IF @ = 0 THEN 0 ELSE latest[Target[u]] + 1]
        <3>1. CASE p = page[u]
            <4>1. ObjectOf(p) = Target[u] /\ Target[u] \in Objects
                BY <2>1, <3>1 DEF PageFor
            <4>2. latest'[ObjectOf(p)] = latest[Target[u]] + 1
                BY <1>t, <2>3, <4>1 DEF TypeOK
            <4>3. content'[p] = 0 \/ content'[p] = latest[Target[u]] + 1
                BY <1>t, <2>3, <3>1 DEF TypeOK
            <4> QED
                BY <1>n, <4>1, <4>2, <4>3
        <3>2. CASE p # page[u]
            <4>1. content'[p] = content[p]
                BY <1>t, <2>3, <3>2 DEF TypeOK
            <4>2. latest'[ObjectOf(p)] \in {latest[ObjectOf(p)], latest[ObjectOf(p)] + 1}
                BY <1>t, <2>3 DEF TypeOK
            <4> QED
                BY <1>t, <1>n, <4>1, <4>2
        <3> QED
            BY <3>1, <3>2
    <2> QED
        BY <1>1, <2>2, <2>3 DEF Access
<1>2. ASSUME NEW u \in Users, CopyDone(u) PROVE content'[p] <= latest'[ObjectOf(p)]
    <2>1. content[Target[u]] <= latest[Target[u]]
        BY NamesAssumption DEF CopyInv, ObjectOf, Pages
    <2>2. p = u => ObjectOf(p) = Target[u]
        BY NamesAssumption DEF ObjectOf
    <2>3. content'[p] = IF p = u THEN content[Target[u]] ELSE content[p]
        BY <1>2, <1>t DEF CopyDone, TypeOK
    <2> QED
        BY <1>2, <1>t, <2>1, <2>2, <2>3 DEF CopyDone
<1>3. ASSUME UNCHANGED dataVars PROVE content'[p] <= latest'[ObjectOf(p)]
    BY <1>t, <1>3 DEF dataVars
<1>4. \/ UNCHANGED dataVars
      \/ \E u \in Users : Access(u) \/ CopyDone(u)
    BY DEF Next, UserStep, MemoryStep, Terminated, Acquire, Resolve, PageFault, PageFaultThrows, Install, Deliver,
           FetchInstance, AllocatePage, PageFaultFails, Create, Finalize, AllocateNull, Evict, vars, dataVars
<1> QED
    BY <1>1, <1>2, <1>3, <1>4

LEMMA CopyCorrect == Spec => []CopyInv
<1>1. Init => CopyInv
    BY UsersAssumption DEF Init, CopyInv, ObjectOf, Pages
<1>2. IInv /\ CopyInv /\ [Next]_vars => CopyInv'
    <2> SUFFICES ASSUME IInv, CopyInv, [Next]_vars PROVE CopyInv'
        OBVIOUS
    <2>1. \A u \in Users : pc'[u] = "resolved" => Ready(page[u])'
        BY AccessedIsReady
    <2>2. \A p \in Pages : (content[p] <= latest[ObjectOf(p)])'
        BY CopiesBehind DEF ObjectOf
    <2> QED
        BY <2>1, <2>2 DEF CopyInv
<1> QED
    BY <1>1, <1>2, InvCorrect, PTL DEF Spec

\* Two users never have access to an object together.
LEMMA AccessAlone ==
    ASSUME NEW u \in Users, NEW w \in Users, Accessing(u), Accessing(w), Target[u] = Target[w]
    PROVE  u = w
BY DEF Accessing

\* A step that neither gives nor takes access, and writes no page of one who has it.
LEMMA KeepsAccess ==
    ASSUME UNCHANGED <<life, latest>>,
           \A w \in Users : Accessing(w)' <=> Accessing(w),
           \A w \in Users : Accessing(w) => content'[page'[w]] = content[page[w]],
           \A o \in Objects : o \in evicted'[Home[o]] <=> o \in evicted[Home[o]]
    PROVE  UNCHANGED Mem!mvars
<1>1. {w \in Users : Accessing(w)}' = {w \in Users : Accessing(w)}
    OBVIOUS
<1>2. [w \in Users |-> IF Accessing(w) THEN content[page[w]] ELSE 0]'
        = [w \in Users |-> IF Accessing(w) THEN content[page[w]] ELSE 0]
    OBVIOUS
<1>3. {o \in Objects : o \in evicted[Home[o]]}' = {o \in Objects : o \in evicted[Home[o]]}
    OBVIOUS
<1> QED
    BY <1>1, <1>2, <1>3 DEF Mem!mvars

\* Who is given access finds what the memory promises.
LEMMA GivesAccess ==
    ASSUME IInv', AtHomeInv', CopyInv', UNCHANGED <<life, content, latest, evicted>>,
           NEW u \in Users, ~Accessing(u), Accessing(u)',
           \A w \in Users : w # u => (Accessing(w)' <=> Accessing(w)) /\ page'[w] = page[w]
    PROVE  \E v \in 0..latest[Target[u]] : Mem!Open(u, v)
<1> USE UsersAssumption
<1> DEFINE o == Target[u]
           v == content[page'[u]]
<1>1. PageFor(page'[u], Node[u], o) /\ o \in Objects
    BY DEF IInv, PageInv, HasPage, Accessing, PageFor, Place, ObjectOf
<1>2. v \in 0..latest[o]
    <2>1. page'[u] \in Pages /\ ObjectOf(page'[u]) = o
        BY <1>1 DEF PageFor
    <2>2. content'[page'[u]] <= latest'[o]
        BY <2>1 DEF CopyInv, ObjectOf
    <2>3. content'[page'[u]] \in Nat /\ latest'[o] \in Nat
        BY <1>1, <2>1 DEF IInv, TypeOK
    <2> QED
        BY <2>2, <2>3
<1>3. life[o] # "unborn"
    BY <1>1 DEF IInv, UnbornInv, Accessing
<1>4. \A w \in {w \in Users : Accessing(w)} : Target[w] # o
    <2> SUFFICES ASSUME NEW w \in Users, Accessing(w), Target[w] = o PROVE FALSE
        OBVIOUS
    <2>1. w # u /\ Accessing(w)'
        OBVIOUS
    <2> QED
        BY <2>1 DEF Accessing
<1>5. ASSUME o \in UsedAtHome \ {q \in Objects : q \in evicted[Home[q]]}
      PROVE  v = latest[o]
    <2>1. AtHome(o)' /\ o \notin evicted'[Home[o]]
        BY <1>1, <1>5 DEF AtHomeInv, UsedAtHome
    <2> QED
        BY <2>1 DEF AtHome, HasPage, Accessing
<1>6. {w \in Users : Accessing(w)}' = {w \in Users : Accessing(w)} \cup {u}
    OBVIOUS
<1>7. [w \in Users |-> IF Accessing(w) THEN content[page[w]] ELSE 0]'
        = [[w \in Users |-> IF Accessing(w) THEN content[page[w]] ELSE 0] EXCEPT ![u] = v]
    OBVIOUS
<1>8. ASSUME NEW k \in 0..latest[o], k = v PROVE Mem!Open(u, k)
    BY <1>2, <1>3, <1>4, <1>5, <1>6, <1>7, <1>8 DEF Mem!Open
<1> QED
    BY <1>2, <1>8

\* A kernel or view that has worked on its page gives up its access.
LEMMA EndsAccess ==
    ASSUME IInv, NEW u \in Users, Access(u)
    PROVE  Mem!Close(u)
<1> USE UsersAssumption
<1>t. TypeOK
    BY DEF IInv
<1>1. /\ UNCHANGED <<life, page, evicted>>
      /\ pc' = [pc EXCEPT ![u] = "done"]
      /\ holder' = [holder EXCEPT ![Target[u]] = None]
      /\ Accessing(u)
    BY DEF Access, Accessing, faultVars
<1>2. ~Accessing(u)'
    BY <1>t, <1>1 DEF Accessing, TypeOK
<1>3. ASSUME NEW w \in Users, w # u
      PROVE  /\ Accessing(w)' <=> Accessing(w)
             /\ Accessing(w) => content'[page'[w]] = content[page[w]]
    <2>1. pc'[w] = pc[w]
        BY <1>t, <1>1, <1>3 DEF TypeOK
    <2>2. CASE Target[w] = Target[u]
        <3>1. ~Accessing(w)
            BY <1>1, <1>3, <2>2, AccessAlone
        <3>2. holder'[Target[w]] = None /\ w # None
            BY <1>t, <1>1, <2>2, NamesAssumption DEF TypeOK, Pages
        <3> QED
            BY <3>1, <3>2 DEF Accessing
    <2>3. CASE Target[w] # Target[u]
        <3>1. holder'[Target[w]] = holder[Target[w]]
            BY <1>t, <1>1, <2>3 DEF TypeOK
        <3>2. Accessing(w) => page[w] \in Pages /\ page[w] # page[u]
            <4>1. HasPage(u) /\ (Accessing(w) => HasPage(w))
                BY <1>1 DEF Accessing, HasPage
            <4> QED
                BY <2>3, <4>1 DEF IInv, PageInv, PageFor
        <3>3. Accessing(w) => content'[page[w]] = content[page[w]]
            <4>1. content' = content \/ \E x : content' = [content EXCEPT ![page[u]] = x]
                BY DEF Access, dataVars
            <4> QED
                BY <1>t, <3>2, <4>1 DEF TypeOK
        <3> QED
            BY <1>1, <2>1, <3>1, <3>3 DEF Accessing
    <2> QED
        BY <2>2, <2>3
<1>4. {w \in Users : Accessing(w)}' = {w \in Users : Accessing(w)} \ {u}
    BY <1>2, <1>3
<1>5. [w \in Users |-> IF Accessing(w) THEN content[page[w]] ELSE 0]'
        = [[w \in Users |-> IF Accessing(w) THEN content[page[w]] ELSE 0] EXCEPT ![u] = 0]
    BY <1>2, <1>3
<1>6. latest' \in {latest, [latest EXCEPT ![Target[u]] = @ + 1]}
    BY DEF Access, dataVars
<1> QED
    BY <1>1, <1>4, <1>5, <1>6 DEF Mem!Close

\* Whatever page faults, failures and evictions happen, the users of an object find
\* in it what a memory with one value per object would give them.
THEOREM MemoryRefinement == Spec => ImplementsMemory
<1>1. Init => Mem!Init
    <2> SUFFICES ASSUME Init PROVE Mem!Init
        OBVIOUS
    <2>1. \A u \in Users : ~Accessing(u)
        BY DEF Init, Accessing
    <2>2. \A o \in Objects : o \notin evicted[Home[o]]
        BY UsersAssumption DEF Init
    <2> QED
        BY <2>1, <2>2 DEF Init, Mem!Init
<1>2. IInv /\ AtHomeInv /\ CopyInv /\ IInv' /\ AtHomeInv' /\ CopyInv' /\ [Next]_vars => [Mem!Next]_Mem!mvars
    <2> SUFFICES ASSUME IInv, AtHomeInv, CopyInv, IInv', AtHomeInv', CopyInv', [Next]_vars
                 PROVE  [Mem!Next]_Mem!mvars
        OBVIOUS
    <2> USE UsersAssumption
    <2>t. TypeOK
        BY DEF IInv
    <2>1. ASSUME NEW u \in Users, Acquire(u) \/ Resolve(u) \/ Deliver(u) \/ PageFaultThrows(u)
          PROVE  [Mem!Next]_Mem!mvars
        <3>1. /\ UNCHANGED <<life, content, latest, evicted>>
              /\ \A w \in Users : w # u => pc'[w] = pc[w] /\ page'[w] = page[w]
            BY <2>t, <2>1 DEF Acquire, Resolve, Deliver, PageFaultThrows, faultVars, dataVars, TypeOK
        <3>2. \A w \in Users : w # u => (Accessing(w)' <=> Accessing(w))
            <4> SUFFICES ASSUME NEW w \in Users, w # u PROVE holder'[Target[w]] = w <=> holder[Target[w]] = w
                BY <3>1 DEF Accessing
            <4>1. /\ \A o \in Objects : holder'[o] # holder[o] =>
                          o = Target[u] /\ {holder[o], holder'[o]} = {u, None}
                BY <2>t, <2>1 DEF Acquire, Resolve, Deliver, PageFaultThrows, ReleaseToken, TypeOK
            <4> QED
                BY <4>1, NamesAssumption DEF Pages
        <3>3. CASE Accessing(u) <=> Accessing(u)'
            <4>1. Accessing(u) => page'[u] = page[u]
                BY <2>t, CompletePages DEF Accessing
            <4> QED
                BY <3>1, <3>2, <3>3, <4>1, KeepsAccess
        <3>4. CASE ~Accessing(u) /\ Accessing(u)'
            <4>1. \E v \in 0..latest[Target[u]] : Mem!Open(u, v)
                BY <3>1, <3>2, <3>4, GivesAccess
            <4> QED
                BY <4>1 DEF Mem!Next
        <3>5. CASE Accessing(u) /\ ~Accessing(u)'
            BY <2>t, <2>1, <3>5, NamesAssumption
            DEF Accessing, Acquire, Resolve, Deliver, PageFaultThrows, TypeOK, Pages
        <3> QED
            BY <3>3, <3>4, <3>5
    <2>2. ASSUME NEW u \in Users,
                 PageFault(u) \/ Install(u) \/ FetchInstance(u) \/ AllocatePage(u) \/ CopyDone(u) \/ PageFaultFails(u)
          PROVE  UNCHANGED Mem!mvars
        <3>1. /\ UNCHANGED <<life, latest, evicted, holder>>
              /\ \A w \in Users : pc'[w] = "resolved" <=> pc[w] = "resolved"
              /\ \A w \in Users : pc[w] = "resolved" => page'[w] = page[w]
            BY <2>t, <2>2, CompletePages DEF PageFault, Install, FetchInstance, AllocatePage, CopyDone, PageFaultFails,
                                    resolveVars, dataVars, TypeOK
        <3>2. ASSUME NEW w \in Users, pc[w] = "resolved"
              PROVE  content'[page[w]] = content[page[w]]
            <4>1. CASE content' = content
                BY <4>1
            <4>2. CASE CopyDone(u)
                <5>1. page[w] \in Pages /\ page[w] # u
                    BY <3>2, <4>2 DEF CopyInv, Ready, CopyDone, IInv, PageInv, HasPage, PageFor
                <5> QED
                    BY <2>t, <4>2, <5>1 DEF CopyDone, TypeOK
            <4> QED
                BY <2>2, <4>1, <4>2 DEF PageFault, Install, FetchInstance, AllocatePage, PageFaultFails, dataVars
        <3> QED
            BY <3>1, <3>2, KeepsAccess DEF Accessing
    <2>3. ASSUME NEW u \in Users, Access(u) PROVE Mem!Next
        BY <2>3, EndsAccess DEF Mem!Next
    <2>4. ASSUME NEW o \in Objects, Create(o) PROVE Mem!Create(o)
        <3>1. \A w \in Users : Accessing(w)' <=> Accessing(w)
            BY <2>4 DEF Create, Accessing, resolveVars
        <3> QED
            BY <2>4, <3>1 DEF Create, Mem!Create, resolveVars, dataVars
    <2>5. ASSUME NEW o \in Objects, Finalize(o) PROVE Mem!Finalize(o)
        <3>1. \A w \in Users : Accessing(w)' <=> Accessing(w)
            BY <2>5 DEF Finalize, Accessing, resolveVars
        <3> QED
            BY <2>5, <3>1 DEF Finalize, Mem!Finalize, resolveVars, dataVars
    <2>6. ASSUME NEW n \in Nodes, NEW o \in Objects, Evict(n, o) PROVE [Mem!Next]_Mem!mvars
        <3>1. /\ UNCHANGED <<life, pc, page, holder, content, latest>>
              /\ \A w \in Users : Accessing(w)' <=> Accessing(w)
              /\ evicted' = [evicted EXCEPT ![n] = @ \cup {o}]
            BY <2>6 DEF Evict, Accessing, resolveVars, dataVars
        <3>2. CASE n # Home[o]
            <4>1. \A q \in Objects : q \in evicted'[Home[q]] <=> q \in evicted[Home[q]]
                BY <2>t, <3>1, <3>2 DEF TypeOK
            <4> QED
                BY <3>1, <4>1, KeepsAccess
        <3>3. CASE n = Home[o]
            <4>1. life[o] = "finalized"
                <5>1. entry[n][o] # None /\ Unique(entry[n][o])
                    BY <2>6 DEF Evict, Evictable
                <5>2. life[o] = "live" => entry[n][o] = o
                    BY <3>3 DEF IInv, ResidentInv, LiveObjectStaysResident
                <5>3. life[o] # "unborn"
                    BY <5>1 DEF IInv, UnbornInv
                <5> QED
                    BY <2>t, <5>1, <5>2, <5>3 DEF Unique, TypeOK, Lives
            <4>2. {q \in Objects : q \in evicted[Home[q]]}' = {q \in Objects : q \in evicted[Home[q]]} \cup {o}
                BY <2>t, <3>1, <3>3 DEF TypeOK
            <4>3. Mem!Lose(o)
                BY <3>1, <4>1, <4>2 DEF Mem!Lose
            <4> QED
                BY <4>3 DEF Mem!Next
        <3> QED
            BY <3>2, <3>3
    <2>7. ASSUME NEW n \in Nodes, AllocateNull(n) PROVE UNCHANGED Mem!mvars
        BY <2>7, KeepsAccess DEF AllocateNull, Accessing, resolveVars, dataVars
    <2>8. CASE UNCHANGED vars
        BY <2>8, KeepsAccess DEF Accessing, vars
    <2>9. CASE MemoryStep
        BY <2>9, <2>4, <2>5, <2>6, <2>7 DEF MemoryStep, Mem!Next
    <2> QED
        BY <2>1, <2>2, <2>3, <2>8, <2>9 DEF Next, UserStep, Terminated
<1> QED
    BY <1>1, <1>2, InvCorrect, AtHomeCorrect, CopyCorrect, PTL DEF Spec, ImplementsMemory, Mem!Spec

\* The promise is worth having: a memory with one value per object gives access to
\* one user at a time, who finds the last write of a coherent object.
THEOREM MemoryPromise == ImplementsMemory => [](Mem!OneAtATime /\ Mem!SeesLastWrite)
<1> DEFINE Inv == latest \in [Objects -> Nat] /\ Mem!OneAtATime /\ Mem!SeesLastWrite
<1> USE UsersAssumption
<1>1. Mem!Init => Inv
    <2> SUFFICES ASSUME Mem!Init PROVE Inv
        OBVIOUS
    <2>1. {u \in Users : Accessing(u)} = {} /\ latest \in [Objects -> Nat]
        BY DEF Mem!Init
    <2> QED
        BY <2>1 DEF Mem!OneAtATime, Mem!SeesLastWrite
<1>2. Inv /\ [Mem!Next]_Mem!mvars => Inv'
    <2> SUFFICES ASSUME Inv, [Mem!Next]_Mem!mvars PROVE Inv'
        OBVIOUS
    <2>1. ASSUME NEW u \in Users, NEW v \in 0..latest[Target[u]], Mem!Open(u, v) PROVE Inv'
        <3>1. u \notin {w \in Users : Accessing(w)}
            BY <2>1 DEF Mem!Open
        <3> QED
            BY <2>1, <3>1 DEF Mem!Open, Mem!OneAtATime, Mem!SeesLastWrite
    <2>2. ASSUME NEW u \in Users, Mem!Close(u) PROVE Inv'
        <3>1. latest' \in [Objects -> Nat] /\ \A o \in Objects : o # Target[u] => latest'[o] = latest[o]
            BY <2>2 DEF Mem!Close
        <3> QED
            BY <2>2, <3>1 DEF Mem!Close, Mem!OneAtATime, Mem!SeesLastWrite
    <2>3. ASSUME NEW o \in Objects, Mem!Create(o) \/ Mem!Finalize(o) \/ Mem!Lose(o) PROVE Inv'
        BY <2>3 DEF Mem!Create, Mem!Finalize, Mem!Lose, Mem!OneAtATime, Mem!SeesLastWrite
    <2>4. CASE UNCHANGED Mem!mvars
        BY <2>4 DEF Mem!mvars, Mem!OneAtATime, Mem!SeesLastWrite
    <2> QED
        BY <2>1, <2>2, <2>3, <2>4 DEF Mem!Next
<1> QED
    BY <1>1, <1>2, PTL DEF ImplementsMemory, Mem!Spec

-----------------------------------------------------------------------------

\* The users of the memory follow the discipline of the tokens, whatever fails.
THEOREM TokenLockRefinement == Spec => ImplementsTokenLock
<1> USE UsersAssumption
<1>1. Init => Lock!Init
    BY NamesAssumption DEF Init, Lock!Init, Pages
<1>2. TypeOK /\ [Next]_vars => [Lock!Next]_Lock!tvars
    <2> SUFFICES ASSUME TypeOK, [Next]_vars PROVE [Lock!Next]_Lock!tvars
        OBVIOUS
    <2>1. ASSUME NEW u \in Users, Acquire(u) PROVE Lock!Take(u)
        <3>1. holder[Target[u]] = None /\ pc' = pc /\ pc[u] \notin {"done", "failed"}
            BY <2>1 DEF Acquire
        <3>2. holder'[Target[u]] = u /\ \A o \in Objects : o # Target[u] => holder'[o] = holder[o]
            BY <2>1 DEF Acquire, TypeOK
        <3>3. \A w \in Users : holder[Target[w]] = w => Target[w] # Target[u]
            BY <3>1, NamesAssumption DEF Pages
        <3> QED
            BY <3>1, <3>2, <3>3 DEF Lock!Take
    <2>2. ASSUME NEW u \in Users, pc'[u] \in {"done", "failed"},
                 \A w \in Users : w # u => pc'[w] = pc[w],
                 holder' = [holder EXCEPT ![Target[u]] = IF @ = u THEN None ELSE @]
          PROVE  Lock!Leave(u)
        <3>1. /\ holder'[Target[u]] = IF holder[Target[u]] = u THEN None ELSE holder[Target[u]]
              /\ \A o \in Objects : o # Target[u] => holder'[o] = holder[o]
            BY <2>2 DEF TypeOK
        <3>2. \A w \in Users : holder'[Target[w]] = w <=> holder[Target[w]] = w /\ w # u
            BY <3>1, NamesAssumption DEF Pages
        <3> QED
            BY <2>2, <3>2 DEF Lock!Leave
    <2>3. ASSUME NEW u \in Users, Resolve(u) \/ Deliver(u) \/ PageFaultThrows(u) \/ Access(u) \/ Install(u)
          PROVE  [Lock!Next]_Lock!tvars
        <3>1. /\ \A w \in Users : w # u => pc'[w] = pc[w]
              /\ pc[u] \notin {"done", "failed"}
            BY <2>3 DEF Resolve, Deliver, PageFaultThrows, Access, Install, TypeOK
        <3>2. \/ holder' = holder /\ pc'[u] \notin {"done", "failed"}
              \/ /\ pc'[u] \in {"done", "failed"}
                 /\ holder' = [holder EXCEPT ![Target[u]] = IF @ = u THEN None ELSE @]
            <4>1. CASE Resolve(u) \/ Install(u)
                BY <4>1 DEF Resolve, ReleaseToken, Install, TypeOK
            <4>2. CASE Deliver(u) \/ PageFaultThrows(u)
                BY <4>2 DEF Deliver, PageFaultThrows, ReleaseToken, TypeOK
            <4>3. CASE Access(u)
                BY <4>3 DEF Access, TypeOK
            <4> QED
                BY <2>3, <4>1, <4>2, <4>3
        <3>3. CASE holder' = holder /\ pc'[u] \notin {"done", "failed"}
            BY <3>1, <3>3 DEF Lock!tvars
        <3>4. CASE Lock!Leave(u)
            BY <3>4 DEF Lock!Next
        <3> QED
            BY <2>2, <3>1, <3>2, <3>3, <3>4
    <2>4. ASSUME NEW u \in Users,
                 \/ PageFault(u) \/ FetchInstance(u) \/ AllocatePage(u) \/ CopyDone(u) \/ PageFaultFails(u)
          PROVE  UNCHANGED <<pc, holder>>
        BY <2>4 DEF PageFault, FetchInstance, AllocatePage, CopyDone, PageFaultFails, resolveVars
    <2>5. ASSUME MemoryStep \/ UNCHANGED vars PROVE UNCHANGED <<pc, holder>>
        BY <2>5 DEF MemoryStep, Create, Finalize, AllocateNull, Evict, resolveVars, vars
    <2>6. CASE UNCHANGED <<pc, holder>>
        BY <2>6 DEF Lock!tvars
    <2> QED
        BY <2>1, <2>3, <2>4, <2>5, <2>6 DEF Next, UserStep, Terminated, Lock!Next
<1> QED
    BY <1>1, <1>2, TypeCorrect, PTL DEF Spec, ImplementsTokenLock, Lock!Spec
=============================================================================
