---------------------------- MODULE AddressSpace ----------------------------
(***************************************************************************)
(* The memory of the runtime: on every node an address_space, whose        *)
(* entry_table_ maps an object to the shared future of a page, and the     *)
(* objects, whose servers own the primary page on their home node.         *)
(*                                                                         *)
(* resolve_object looks the object up under the table's spinlock, releases *)
(* the lock to run the page fault handler and takes it again to add the    *)
(* future the handler returned.  The handler asks the object for its       *)
(* primary instance, allocates a page and copies the instance into it, in  *)
(* continuations that may be over before the future is added.  An          *)
(* allocator out of memory makes the address space drop an entry nobody    *)
(* holds a handle of.                                                      *)
(*                                                                         *)
(* A user is an access of a kernel, which resolves its object once it has  *)
(* the object's token, or of a view, which resolves it before.  Tokens are *)
(* modelled by what Dataflow promises of them: one holder per object.      *)
(* The asserts of the code are compiled out.                               *)
(***************************************************************************)
EXTENDS Naturals, FiniteSets

CONSTANTS
    Nodes,     \* the localities
    Objects,   \* the objects clients create
    Users,     \* the accesses of kernels and views
    Views,     \* those of views
    Home,      \* the node a local_object_factory of which creates the object
    Node,      \* the node a user resolves its object on
    Target,    \* the object of a user
    Capacity,  \* how many pages the allocator of a node can hand out
    None       \* no page, no user

ASSUME UsersAssumption ==
    /\ Views \subseteq Users
    /\ Home \in [Objects -> Nodes]
    /\ Node \in [Users -> Nodes]
    /\ Target \in [Users -> Objects]
    /\ Capacity \in [Nodes -> Nat]

\* A page and the future it is delivered by bear the name of the object whose
\* primary page it is, or of the user whose page fault asks for it.
Pages == Objects \cup Users

ASSUME NamesAssumption == None \notin Pages /\ Objects \cap Users = {}

VARIABLES
    life,     \* of an object: "unborn", "live" or "finalized"
    entry,    \* entry_table_ of each node: the future of an object
    pc,       \* how far a user has come
    page,     \* the page a user waits for or holds a handle of
    fault,    \* how far the page fault started by a user has come
    instance, \* the users whose page fault holds the primary instance
    holder,   \* the user holding the token of an object
    content,  \* the version of the object's value a page holds, 0 if it has no data
    latest,   \* history: the version written last
    evicted,  \* history: the objects each node has evicted
    crashed   \* a null page was dereferenced

vars == <<life, entry, pc, page, fault, instance, holder, content, latest, evicted, crashed>>

resolveVars == <<pc, page, holder>>
faultVars == <<fault, instance>>
dataVars == <<content, latest>>

Lives == {"unborn", "live", "finalized"}
UserStates == {"idle", "missed", "attached", "resolved", "done", "failed"}
FaultStates == {"none", "fetching", "allocating", "copying", "ready", "failed"}

Place(p) == IF p \in Objects THEN Home[p] ELSE Node[p]
ObjectOf(p) == IF p \in Objects THEN p ELSE Target[p]
Ready(p) == p \in Users => fault[p] = "ready"
Failed(p) == p \in Users /\ fault[p] = "failed"
EntryOf(u) == entry[Node[u]][Target[u]]

-----------------------------------------------------------------------------
(***************************************************************************)
(* Memory                                                                  *)
(***************************************************************************)

\* Mutant: the handle in the object server does not count.
UniqueButForServer(p) ==
    /\ p \in Objects => \A u \in instance : Target[u] # p
    /\ \A u \in Users : ~(pc[u] = "resolved" /\ page[u] = p)

\* handle::unique of the handle in the entry's future: no copy of it is in the
\* object server, an object_instance_server or a user.
Unique(p) ==
    /\ p \in Objects => life[p] # "live" /\ \A u \in instance : Target[u] # p
    /\ \A u \in Users : ~(pc[u] = "resolved" /\ page[u] = p)

\* The memory of a page is in use while a handle or the future with the handle is.
InUse(p) ==
    \/ entry[Place(p)][ObjectOf(p)] = p
    \/ \E u \in Users : pc[u] \in {"attached", "resolved"} /\ page[u] = p
    \/ p \in Objects /\ (life[p] = "live" \/ \E u \in instance : Target[u] = p)
    \/ p \in Users /\ (fault[p] = "copying" \/ pc[p] = "missed")

\* A page without data takes no memory.
HasMemory(p) ==
    InUse(p) /\ (p \in Users => fault[p] = "copying" \/ (fault[p] = "ready" /\ content[p] # 0))

Full(n) == Cardinality({p \in Pages : Place(p) = n /\ HasMemory(p)}) >= Capacity[n]

\* Mutant: exceptional entries are dropped too.
EvictableOrFailed(n, o) ==
    entry[n][o] # None /\ (Failed(entry[n][o]) \/ (Ready(entry[n][o]) /\ Unique(entry[n][o])))

Evictable(n, o) == entry[n][o] # None /\ Ready(entry[n][o]) /\ Unique(entry[n][o])

\* Somebody on the node is in evicting_allocator::allocate.
Allocating(n) ==
    \/ \E o \in Objects : Home[o] = n /\ life[o] = "unborn"
    \/ \E u \in Users : Node[u] = n /\ fault[u] = "allocating"

\* The allocator returned null and evict_objects(0) drops one entry.
Evict(n, o) ==
    /\ ~crashed
    /\ Allocating(n)
    /\ Full(n)
    /\ Evictable(n, o)
    /\ entry' = [entry EXCEPT ![n][o] = None]
    /\ evicted' = [evicted EXCEPT ![n] = @ \cup {o}]
    /\ UNCHANGED <<life, resolveVars, faultVars, dataVars, crashed>>

\* There is nothing to drop: allocate returns null, allocate_page wraps it and
\* the caller dereferences it.
AllocateNull(n) ==
    /\ ~crashed
    /\ Allocating(n)
    /\ Full(n)
    /\ \A o \in Objects : ~Evictable(n, o) /\ ~(entry[n][o] # None /\ Failed(entry[n][o]))
    /\ crashed' = TRUE
    /\ UNCHANGED <<life, entry, resolveVars, faultVars, dataVars, evicted>>

-----------------------------------------------------------------------------
(***************************************************************************)
(* Objects                                                                 *)
(***************************************************************************)

\* local_object_factory_server::create_native_object.
Create(o) ==
    /\ ~crashed
    /\ life[o] = "unborn"
    /\ ~Full(Home[o])
    /\ life' = [life EXCEPT ![o] = "live"]
    /\ entry' = [entry EXCEPT ![Home[o]][o] = o]
    /\ UNCHANGED <<resolveVars, faultVars, dataVars, evicted, crashed>>

\* Mutant: finalize also frees the object in the table of its home node.
FinalizeFrees(o) ==
    /\ ~crashed
    /\ life[o] = "live"
    /\ life' = [life EXCEPT ![o] = "finalized"]
    /\ entry' = [entry EXCEPT ![Home[o]][o] = None]
    /\ UNCHANGED <<resolveVars, faultVars, dataVars, evicted, crashed>>

\* object_server::finalize, called by the destructor of any copy of a tensor.
\* The tables are not told.
Finalize(o) ==
    /\ ~crashed
    /\ life[o] = "live"
    /\ life' = [life EXCEPT ![o] = "finalized"]
    /\ UNCHANGED <<entry, resolveVars, faultVars, dataVars, evicted, crashed>>

-----------------------------------------------------------------------------
(***************************************************************************)
(* address_space::resolve_object                                           *)
(***************************************************************************)

\* The dataflow graph grants the token; a view may be resolving already.
Acquire(u) ==
    /\ ~crashed
    /\ life[Target[u]] # "unborn"
    /\ holder[Target[u]] = None
    /\ pc[u] = "idle" \/ (u \in Views /\ pc[u] \in {"missed", "attached", "resolved"})
    /\ holder' = [holder EXCEPT ![Target[u]] = u]
    /\ UNCHANGED <<life, entry, pc, page, faultVars, dataVars, evicted, crashed>>

ReleaseToken(u) == holder' = [holder EXCEPT ![Target[u]] = IF @ = u THEN None ELSE @]

\* The table is searched under the lock.
Resolve(u) ==
    LET f == EntryOf(u)
    IN  /\ ~crashed
        /\ pc[u] = "idle"
        /\ life[Target[u]] # "unborn"
        /\ u \in Views \/ holder[Target[u]] = u
        /\ \/ /\ f = None
              /\ pc' = [pc EXCEPT ![u] = "missed"]
              /\ UNCHANGED <<page, holder>>
           \/ /\ f # None /\ Ready(f)
              /\ pc' = [pc EXCEPT ![u] = "resolved"]
              /\ page' = [page EXCEPT ![u] = f]
              /\ UNCHANGED holder
           \/ /\ f # None /\ Failed(f)
              /\ pc' = [pc EXCEPT ![u] = "failed"]
              /\ ReleaseToken(u)
              /\ UNCHANGED page
           \/ /\ f # None /\ ~Ready(f) /\ ~Failed(f)
              /\ pc' = [pc EXCEPT ![u] = "attached"]
              /\ page' = [page EXCEPT ![u] = f]
              /\ UNCHANGED holder
        /\ UNCHANGED <<life, entry, faultVars, dataVars, evicted, crashed>>

\* object_server::has_data.
HasData(o) == life[o] = "live"

\* on_page_fault_: an object without data gets an empty page at once, any other
\* a future that local_runtime::resolve_page_fault will set.
PageFault(u) ==
    /\ ~crashed
    /\ pc[u] = "missed"
    /\ fault[u] = "none"
    /\ fault' = [fault EXCEPT ![u] = IF HasData(Target[u]) THEN "fetching" ELSE "ready"]
    /\ UNCHANGED <<life, entry, resolveVars, instance, dataVars, evicted, crashed>>

\* on_page_fault_ itself throws; resolve_object throws 0.
PageFaultThrows(u) ==
    /\ ~crashed
    /\ pc[u] = "missed"
    /\ fault[u] = "none"
    /\ pc' = [pc EXCEPT ![u] = "failed"]
    /\ ReleaseToken(u)
    /\ UNCHANGED <<life, entry, page, faultVars, dataVars, evicted, crashed>>

\* Mutant: the future is assigned instead of emplaced.
InstallOverwrites(u) ==
    /\ ~crashed
    /\ pc[u] = "missed"
    /\ fault[u] # "none"
    /\ entry' = [entry EXCEPT ![Node[u]][Target[u]] = u]
    /\ page' = [page EXCEPT ![u] = u]
    /\ pc' = [pc EXCEPT ![u] = "attached"]
    /\ UNCHANGED <<life, holder, faultVars, dataVars, evicted, crashed>>

\* The lock is taken again and the future added, unless the address is occupied
\* by now; the caller waits for whatever future the table has.
Install(u) ==
    LET f == IF EntryOf(u) = None THEN u ELSE EntryOf(u)
    IN  /\ ~crashed
        /\ pc[u] = "missed"
        /\ fault[u] # "none"
        /\ entry' = [entry EXCEPT ![Node[u]][Target[u]] = f]
        /\ page' = [page EXCEPT ![u] = f]
        /\ pc' = [pc EXCEPT ![u] = "attached"]
        /\ UNCHANGED <<life, holder, faultVars, dataVars, evicted, crashed>>

\* Mutant: the continuation runs only if the future has a value.
DeliverValues(u) ==
    /\ ~crashed
    /\ pc[u] = "attached"
    /\ Ready(page[u])
    /\ pc' = [pc EXCEPT ![u] = "resolved"]
    /\ UNCHANGED <<life, entry, page, holder, faultVars, dataVars, evicted, crashed>>

\* The continuation on the service pool hands the page or the exception on.
Deliver(u) ==
    /\ ~crashed
    /\ pc[u] = "attached"
    /\ \/ /\ Ready(page[u])
          /\ pc' = [pc EXCEPT ![u] = "resolved"]
          /\ UNCHANGED holder
       \/ /\ Failed(page[u])
          /\ pc' = [pc EXCEPT ![u] = "failed"]
          /\ ReleaseToken(u)
    /\ UNCHANGED <<life, entry, page, faultVars, dataVars, evicted, crashed>>

\* The kernel or the view, under its token, reads the page and may write it.
Access(u) ==
    LET o == Target[u]
    IN  /\ ~crashed
        /\ pc[u] = "resolved"
        /\ holder[o] = u
        /\ \/ UNCHANGED dataVars
           \/ /\ latest' = [latest EXCEPT ![o] = @ + 1]
              /\ content' = [content EXCEPT ![page[u]] = IF @ = 0 THEN 0 ELSE latest[o] + 1]
        /\ pc' = [pc EXCEPT ![u] = "done"]
        /\ holder' = [holder EXCEPT ![o] = None]
        /\ UNCHANGED <<life, entry, page, faultVars, evicted, crashed>>

-----------------------------------------------------------------------------
(***************************************************************************)
(* local_runtime::resolve_page_fault                                       *)
(***************************************************************************)

\* The global address space asks the object for its primary instance: empty if
\* the object was finalized meanwhile, which operator bool does not tell.
FetchInstance(u) ==
    /\ ~crashed
    /\ fault[u] = "fetching"
    /\ fault' = [fault EXCEPT ![u] = "allocating"]
    /\ instance' = IF HasData(Target[u]) THEN instance \cup {u} ELSE instance
    /\ UNCHANGED <<life, entry, resolveVars, dataVars, evicted, crashed>>

AllocatePage(u) ==
    /\ ~crashed
    /\ fault[u] = "allocating"
    /\ ~Full(Node[u])
    /\ fault' = [fault EXCEPT ![u] = "copying"]
    /\ UNCHANGED <<life, entry, resolveVars, instance, dataVars, evicted, crashed>>

\* object_instance::copy is over and the future becomes ready.
CopyDone(u) ==
    /\ ~crashed
    /\ fault[u] = "copying"
    /\ u \in instance
    /\ fault' = [fault EXCEPT ![u] = "ready"]
    /\ content' = [content EXCEPT ![u] = content[Target[u]]]
    /\ instance' = instance \ {u}
    /\ UNCHANGED <<life, entry, resolveVars, latest, evicted, crashed>>

\* Mutant: the failed page fault keeps its handle of the primary page.
PageFaultFailsHolding(u) ==
    /\ ~crashed
    /\ fault[u] \in {"fetching", "allocating", "copying"}
    /\ fault' = [fault EXCEPT ![u] = "failed"]
    /\ UNCHANGED <<life, entry, resolveVars, instance, dataVars, evicted, crashed>>

\* A call to the object, the allocator or the copy throws (a copy of an empty
\* instance always does), or evict_objects meets an exceptional entry: the
\* exception goes into the future.
PageFaultFails(u) ==
    /\ ~crashed
    /\ fault[u] \in {"fetching", "allocating", "copying"}
    /\ fault' = [fault EXCEPT ![u] = "failed"]
    /\ instance' = instance \ {u}
    /\ UNCHANGED <<life, entry, resolveVars, dataVars, evicted, crashed>>

-----------------------------------------------------------------------------

Returned(u) == pc[u] \in {"resolved", "done", "failed"}

Terminated ==
    /\ crashed \/ \A u \in Users : pc[u] \in {"done", "failed"}
    /\ UNCHANGED vars

Init ==
    /\ life = [o \in Objects |-> "unborn"]
    /\ entry = [n \in Nodes |-> [o \in Objects |-> None]]
    /\ pc = [u \in Users |-> "idle"]
    /\ page = [u \in Users |-> None]
    /\ fault = [u \in Users |-> "none"]
    /\ instance = {}
    /\ holder = [o \in Objects |-> None]
    /\ content = [p \in Pages |-> IF p \in Objects THEN 1 ELSE 0]
    /\ latest = [o \in Objects |-> 1]
    /\ evicted = [n \in Nodes |-> {}]
    /\ crashed = FALSE

UserStep(u) ==
    \/ Acquire(u) \/ Resolve(u) \/ PageFault(u) \/ PageFaultThrows(u) \/ Install(u)
    \/ Deliver(u) \/ Access(u)
    \/ FetchInstance(u) \/ AllocatePage(u) \/ CopyDone(u) \/ PageFaultFails(u)

MemoryStep ==
    \/ \E o \in Objects : Create(o) \/ Finalize(o)
    \/ \E n \in Nodes : AllocateNull(n) \/ \E o \in Objects : Evict(n, o)

Next ==
    \/ \E u \in Users : UserStep(u)
    \/ MemoryStep
    \/ Terminated

Spec == Init /\ [][Next]_vars

\* HPX runs every runnable thread and continuation, and the remote calls, the
\* allocation and the copy of a page fault return or throw.
Fairness ==
    \A u \in Users :
        /\ WF_vars(PageFault(u) \/ PageFaultThrows(u))
        /\ WF_vars(Install(u))
        /\ WF_vars(Deliver(u))
        /\ WF_vars(FetchInstance(u) \/ AllocatePage(u) \/ CopyDone(u) \/ PageFaultFails(u))

FairSpec == Spec /\ Fairness

-----------------------------------------------------------------------------
(***************************************************************************)
(* Properties                                                              *)
(***************************************************************************)

\* Types; an instance of the primary page is held only while a page fault copies it.
TypeOK ==
    /\ life \in [Objects -> Lives]
    /\ entry \in [Nodes -> [Objects -> Pages \cup {None}]]
    /\ pc \in [Users -> UserStates]
    /\ page \in [Users -> Pages \cup {None}]
    /\ fault \in [Users -> FaultStates]
    /\ instance \subseteq {u \in Users : fault[u] \in {"allocating", "copying"}}
    /\ holder \in [Objects -> Users \cup {None}]
    /\ content \in [Pages -> Nat]
    /\ latest \in [Objects -> Nat]
    /\ evicted \in [Nodes -> SUBSET Objects]
    /\ crashed \in BOOLEAN

HasPage(u) == pc[u] \in {"attached", "resolved"}

\* Until it is finalized an object stays resident on its home node, whatever is
\* evicted or faulted elsewhere: everyone there works on its primary page and
\* no page fault for it ever happens there.
LiveObjectStaysResident ==
    \A o \in Objects : life[o] = "live" =>
        /\ entry[Home[o]][o] = o
        /\ \A u \in Users : Target[u] = o /\ Node[u] = Home[o] =>
              fault[u] = "none" /\ (HasPage(u) => page[u] = o)

\* The users of an object on a node share one page, those whose page faults
\* raced included, as long as the object was never evicted there.
SharePageUnlessEvicted ==
    \A u, w \in Users :
        /\ HasPage(u) /\ HasPage(w)
        /\ Node[u] = Node[w] /\ Target[u] = Target[w] /\ Target[u] \notin evicted[Node[u]]
        => page[u] = page[w]

FailedEntry(n, o) == entry[n][o] # None /\ Failed(entry[n][o])

\* A page fault that failed once, for whatever passing reason, makes the object
\* unresolvable on the node for good: the exceptional future is never replaced.
FailureIsPermanent ==
    [][\A n \in Nodes, o \in Objects : FailedEntry(n, o) => FailedEntry(n, o)']_vars

\* Every resolve_object whose address was not in the table returns.
EveryResolveReturns ==
    \A u \in Users : (pc[u] \in {"missed", "attached"}) ~> (Returned(u) \/ crashed)

\* Whoever accesses an object under its token finds the value written last.
ReadsLastWrite ==
    \A u \in Users :
        pc[u] = "resolved" /\ holder[Target[u]] = u => content[page[u]] = latest[Target[u]]

\* The same with scarce memory: a value is lost only if the object was finalized
\* and then evicted.
ReadsLastWriteUnlessEvicted ==
    \A u \in Users :
        /\ pc[u] = "resolved" /\ holder[Target[u]] = u
        /\ life[Target[u]] = "live" \/ Target[u] \notin evicted[Node[u]]
        => content[page[u]] = latest[Target[u]]

\* What ReadsLastWrite takes: nothing writes a copy of an object back...
UsersAtHome == \A u \in Users : Node[u] = Home[Target[u]]

\* ... and an object that is finalized and then evicted is lost.
AmpleMemory ==
    /\ IsFiniteSet(Objects)
    /\ \A n \in Nodes : Cardinality({o \in Objects : Home[o] = n}) <= Capacity[n]

\* The user has its page and the token of its object.
Accessing(u) == pc[u] = "resolved" /\ holder[Target[u]] = u

\* The objects that are used on their home nodes only.
UsedAtHome == {o \in Objects : \A u \in Users : Target[u] = o => Node[u] = Home[o]}

\* The memory that kernels and views find: of an object used at home the value is
\* lost when it is evicted there.
Mem == INSTANCE ObjectMemory WITH
        Coherent <- UsedAtHome,
        lost <- {o \in Objects : o \in evicted[Home[o]]},
        value <- latest,
        active <- {u \in Users : Accessing(u)},
        found <- [u \in Users |-> IF Accessing(u) THEN content[page[u]] ELSE 0]

\* The tables, pages and page faults of all nodes behave as a memory with one
\* value per object, for any placement of the users: coherent where an object is
\* used at home, until it is evicted there, and never ahead of the last write
\* elsewhere.
ImplementsMemory == Mem!Spec

\* Kernels and views take and give up tokens, also when a page fault fails, as the
\* dataflow graph hands them out.
Lock == INSTANCE TokenLock WITH
            holding <- {u \in Users : holder[Target[u]] = u},
            passed <- {u \in Users : pc[u] \in {"done", "failed"}}

ImplementsTokenLock == Lock!Spec
-----------------------------------------------------------------------------
(***************************************************************************)
(* The inductive invariant                                                 *)
(***************************************************************************)

\* Page p is one that node n could have for object o.
PageFor(p, n, o) == p \in Pages /\ Place(p) = n /\ ObjectOf(p) = o

\* Tables and users refer to pages of the right node and object, and every
\* faulted page stems from a page fault that was started.
PageInv ==
    /\ \A n \in Nodes, o \in Objects :
        entry[n][o] # None => /\ PageFor(entry[n][o], n, o)
                              /\ entry[n][o] \in Users => fault[entry[n][o]] # "none"
    /\ \A u \in Users : HasPage(u) => PageFor(page[u], Node[u], Target[u])
    /\ \A u \in Users : fault[u] # "none" => pc[u] # "idle"

\* Nobody knows an object before it is created.
UnbornInv ==
    \A o \in Objects : life[o] = "unborn" =>
        /\ \A n \in Nodes : entry[n][o] = None
        /\ \A u \in Users : Target[u] = o => pc[u] = "idle"

\* On its home node a live object is in the table and nobody misses it.
ResidentInv ==
    /\ LiveObjectStaysResident
    /\ \A u \in Users : life[Target[u]] = "live" /\ Node[u] = Home[Target[u]] => pc[u] # "missed"

\* What a user was given is what the table has, unless it was evicted since.
ShareInv ==
    \A u \in Users :
        HasPage(u) /\ Target[u] \notin evicted[Node[u]] => EntryOf(u) = page[u]

IInv == TypeOK /\ PageInv /\ UnbornInv /\ ResidentInv /\ ShareInv

\* What is accessed is complete, and no copy is ahead of the last write.
CopyInv ==
    /\ \A u \in Users : pc[u] = "resolved" => Ready(page[u])
    /\ \A p \in Pages : content[p] <= latest[ObjectOf(p)]

\* If all users of an object are at its home they work on its primary page, which
\* has the last write, until it is evicted there.
AtHome(o) ==
    /\ life[o] # "finalized" => o \notin evicted[Home[o]]
    /\ o \notin evicted[Home[o]] =>
        /\ content[o] = latest[o] /\ latest[o] # 0
        /\ life[o] # "unborn" => entry[Home[o]][o] = o
        /\ \A u \in Users : Target[u] = o =>
            pc[u] # "missed" /\ fault[u] = "none" /\ (HasPage(u) => page[u] = o)

AtHomeInv == \A o \in UsedAtHome : AtHome(o)

NothingEvicted == \A n \in Nodes : evicted[n] = {}

\* What it takes never to evict, wherever the users are: room on every node for its
\* objects and for a copy of each user's object.
RoomForCopies ==
    /\ IsFiniteSet(Pages)
    /\ \A n \in Nodes : Cardinality({p \in Pages : Place(p) = n}) <= Capacity[n]

\* No value is lost for lack of memory and no null page is dereferenced.
NeverOutOfMemory == ~crashed /\ NothingEvicted
=============================================================================
