------------------------------ MODULE Dataflow ------------------------------
(***************************************************************************)
(* The dataflow graph of the Qubus runtime and the operations of           *)
(* runtime_server that use it: execute (a kernel), acquire_write_access    *)
(* and acquire_read_access (a view), and shutdown.                         *)
(*                                                                         *)
(* Every access of a request to an object owns an access token.  The       *)
(* graph's wavefront map holds, per object, the future of the last token   *)
(* scheduled on it; a new token becomes ready once that future is set,     *)
(* which the destructor of the older token does.  The map is not           *)
(* protected by a mutex and runtime_server's actions run on any HPX        *)
(* thread, so a schedule_* call is two steps here: the look-up, which      *)
(* attaches the continuation to the future it finds, and the update of     *)
(* the map.  Reads and writes are scheduled alike.                         *)
(***************************************************************************)
EXTENDS Naturals, Sequences, FiniteSets

CONSTANTS
    Objects,      \* the objects kernels and views access
    Requests,     \* the calls of execute and acquire_*_access
    Views,        \* those of them that acquire a view
    Callers,      \* the client threads that make the calls
    Caller,       \* the thread making each request
    Accesses,     \* per request its objects: the arguments, then the results
    SelfBlocking, \* may a thread ask for a view that a view it holds keeps from it?
    None          \* no token

ASSUME RequestsAssumption ==
    /\ Views \subseteq Requests
    /\ Caller \in [Requests -> Callers]
    /\ Accesses \in [Requests -> Seq(Objects)]
    /\ \A v \in Views : Len(Accesses[v]) = 1
    /\ SelfBlocking \in BOOLEAN

\* The k-th access of request r is made under token <<r, k>>.
Tokens == UNION {{r} \X (1..Len(Accesses[r])) : r \in Requests}

ASSUME NoneAssumption == None \notin Tokens

ObjectOf == [t \in Tokens |-> Accesses[t[1]][t[2]]]

VARIABLES
    phase,     \* how far each request has come
    slot,      \* per request, how many of its schedule_* calls have returned
    search,    \* the branch taken by the schedule_* call in progress
    wavefront, \* wavefront_map_: the last token scheduled on each object
    pred,      \* the token whose event a token waits for
    tok,       \* the state of each token
    order,     \* history: the tokens of each object in look-up order
    stage,     \* how far shutdown has come
    visited,   \* the entries of wavefront_map_ finalize has reached
    awaited    \* the token whose future finalize is blocked on

vars == <<phase, slot, search, wavefront, pred, tok, order, stage, visited, awaited>>

requestVars == <<phase, slot, search>>
graphVars == <<wavefront, pred, order>>
shutdownVars == <<stage, visited, awaited>>

Phases == {"idle", "scheduling", "waiting", "running", "finished", "failed"}
TokenStates == {"unused", "waiting", "granted", "released"}
Over(r) == phase[r] \in {"finished", "failed"}

(***************************************************************************)
(* Clients                                                                 *)
(***************************************************************************)

\* Mutant: execute returns before the accesses are scheduled.
NeverBusy(c) == TRUE

\* A thread waits for the runtime action it has called: execute returns when
\* every access is scheduled, acquire_*_access when the token is ready.
\* The view of an array is a future (host_object_views.hpp:196): a client that calls
\* again before it has taken the view out of it counts as another thread.
CallerFree(c) ==
    \A r \in Requests : Caller[r] = c =>
        /\ phase[r] # "scheduling"
        /\ r \in Views => phase[r] # "waiting"

HoldsView(c) == \E v \in Views : Caller[v] = c /\ phase[v] = "running"

\* The view r may have to wait for one its thread holds: they are of the same
\* object, or a kernel the thread has called waits for the one it holds.
BlocksOnItself(r) ==
    \E v \in Views :
        /\ Caller[v] = Caller[r] /\ phase[v] = "running"
        /\ \/ Accesses[v][1] = Accesses[r][1]
           \/ \E k \in Requests \ Views :
                /\ Caller[k] = Caller[r] /\ phase[k] = "waiting"
                /\ \E i \in 1..Len(Accesses[k]) : Accesses[k][i] = Accesses[v][1]

\* get_runtime finds the runtime by its name, which finalize unregisters.
Registered == stage = "up"

\* runtime::execute, runtime::acquire_write_access, runtime::acquire_read_access.
Call(r) ==
    /\ Registered
    /\ phase[r] = "idle"
    /\ CallerFree(Caller[r])
    /\ r \in Views => SelfBlocking \/ ~BlocksOnItself(r)
    /\ phase' = [phase EXCEPT ![r] = IF Accesses[r] = <<>> THEN "waiting" ELSE "scheduling"]
    /\ UNCHANGED <<slot, search, tok, graphVars, shutdownVars>>

(***************************************************************************)
(* dataflow_graph::schedule_modification and schedule_read                 *)
(***************************************************************************)

CurrentToken(r) == <<r, slot[r] + 1>>

\* The map is searched; if the object has an entry the new token is moved
\* into a continuation of the future found there.
Lookup(r) ==
    LET t == CurrentToken(r)
        o == ObjectOf[t]
    IN  /\ phase[r] = "scheduling"
        /\ search[r] = "none"
        /\ order' = [order EXCEPT ![o] = Append(@, t)]
        /\ \/ /\ wavefront[o] # None
              /\ search' = [search EXCEPT ![r] = "found"]
              /\ pred' = [pred EXCEPT ![t] = wavefront[o]]
              /\ tok' = [tok EXCEPT ![t] = "waiting"]
           \/ /\ wavefront[o] = None
              /\ search' = [search EXCEPT ![r] = "missing"]
              /\ UNCHANGED <<pred, tok>>
        /\ UNCHANGED <<phase, slot, wavefront, shutdownVars>>

\* Mutant: the loop over the objects runs once too often.
PublishOffByOne(r) ==
    LET t == CurrentToken(r)
        o == ObjectOf[t]
    IN  /\ search[r] # "none"
        /\ wavefront' = [wavefront EXCEPT ![o] = t]
        /\ tok' = [tok EXCEPT ![t] = IF search[r] = "missing" THEN "granted" ELSE @]
        /\ search' = [search EXCEPT ![r] = "none"]
        /\ slot' = [slot EXCEPT ![r] = @ + 1]
        /\ phase' = [phase EXCEPT ![r] = IF slot[r] = Len(Accesses[r]) THEN "waiting" ELSE @]
        /\ UNCHANGED <<pred, order, shutdownVars>>

\* Mutant: an existing entry keeps the older token's future.
PublishKeepsEntry(r) ==
    LET t == CurrentToken(r)
        o == ObjectOf[t]
    IN  /\ search[r] # "none"
        /\ wavefront' = [wavefront EXCEPT ![o] = IF @ = None THEN t ELSE @]
        /\ tok' = [tok EXCEPT ![t] = IF search[r] = "missing" THEN "granted" ELSE @]
        /\ search' = [search EXCEPT ![r] = "none"]
        /\ slot' = [slot EXCEPT ![r] = @ + 1]
        /\ phase' = [phase EXCEPT ![r] =
                        IF slot[r] + 1 = Len(Accesses[r]) THEN "waiting" ELSE "scheduling"]
        /\ UNCHANGED <<pred, order, shutdownVars>>

\* The entry is overwritten with the new token's future, or emplaced, which
\* does nothing if another call has emplaced an entry meanwhile.
Publish(r) ==
    LET t == CurrentToken(r)
        o == ObjectOf[t]
    IN  /\ \/ /\ search[r] = "found"
              /\ wavefront' = [wavefront EXCEPT ![o] = t]
              /\ UNCHANGED tok
           \/ /\ search[r] = "missing"
              /\ wavefront' = [wavefront EXCEPT ![o] = IF @ = None THEN t ELSE @]
              /\ tok' = [tok EXCEPT ![t] = "granted"]
        /\ search' = [search EXCEPT ![r] = "none"]
        /\ slot' = [slot EXCEPT ![r] = @ + 1]
        /\ phase' = [phase EXCEPT ![r] =
                        IF slot[r] + 1 = Len(Accesses[r]) THEN "waiting" ELSE "scheduling"]
        /\ UNCHANGED <<pred, order, shutdownVars>>

\* Mutant: the event is set when the older token becomes ready.
GrantEarly(t) ==
    /\ tok[t] = "waiting"
    /\ tok[pred[t]] \in {"granted", "released"}
    /\ tok' = [tok EXCEPT ![t] = "granted"]
    /\ UNCHANGED <<requestVars, graphVars, shutdownVars>>

\* The continuation runs on the service pool once the older token's event is set.
Grant(t) ==
    /\ tok[t] = "waiting"
    /\ tok[pred[t]] = "released"
    /\ tok' = [tok EXCEPT ![t] = "granted"]
    /\ UNCHANGED <<requestVars, graphVars, shutdownVars>>

(***************************************************************************)
(* The life of a request whose accesses are all scheduled                  *)
(***************************************************************************)

AllGranted(r) == \A k \in 1..Len(Accesses[r]) : tok[<<r, k>>] = "granted"

\* Mutant: when_any instead of when_all.
RunOnAnyToken(r) ==
    /\ r \notin Views
    /\ phase[r] = "waiting"
    /\ \E k \in 1..Len(Accesses[r]) : tok[<<r, k>>] = "granted"
    /\ phase' = [phase EXCEPT ![r] = "running"]
    /\ UNCHANGED <<slot, search, tok, graphVars, shutdownVars>>

\* when_all(dependencies).then(...): the kernel starts on the service pool,
\* its tokens kept alive by the continuation.
Run(r) ==
    /\ r \notin Views
    /\ phase[r] = "waiting"
    /\ AllGranted(r)
    /\ phase' = [phase EXCEPT ![r] = "running"]
    /\ UNCHANGED <<slot, search, tok, graphVars, shutdownVars>>

\* global_vpu_->execute(...).get() returns.
Finish(r) ==
    /\ r \notin Views
    /\ phase[r] = "running"
    /\ phase' = [phase EXCEPT ![r] = "finished"]
    /\ UNCHANGED <<slot, search, tok, graphVars, shutdownVars>>

\* It throws: the exception ends in the future execute drops.
Fail(r) ==
    /\ r \notin Views
    /\ phase[r] = "running"
    /\ phase' = [phase EXCEPT ![r] = "failed"]
    /\ UNCHANGED <<slot, search, tok, graphVars, shutdownVars>>

\* schedule_*(obj).get() returns and the client receives the token.
OpenView(r) ==
    /\ r \in Views
    /\ phase[r] = "waiting"
    /\ AllGranted(r)
    /\ phase' = [phase EXCEPT ![r] = "running"]
    /\ UNCHANGED <<slot, search, tok, graphVars, shutdownVars>>

\* The client destroys its view; the token follows.
CloseView(r) ==
    /\ r \in Views
    /\ phase[r] = "running"
    /\ phase' = [phase EXCEPT ![r] = "finished"]
    /\ UNCHANGED <<slot, search, tok, graphVars, shutdownVars>>

\* Mutant: the promise is set at the end of the continuation, which an exception
\* skips.
ReleaseUnlessFailed(t) ==
    /\ phase[t[1]] = "finished"
    /\ tok[t] = "granted"
    /\ tok' = [tok EXCEPT ![t] = "released"]
    /\ UNCHANGED <<requestVars, graphVars, shutdownVars>>

\* Mutant: the token of a view is leaked.
ReleaseKernelTokens(t) ==
    /\ Over(t[1]) /\ t[1] \notin Views
    /\ tok[t] = "granted"
    /\ tok' = [tok EXCEPT ![t] = "released"]
    /\ UNCHANGED <<requestVars, graphVars, shutdownVars>>

\* ~access_token: the event's destructor sets the promise.  The tokens of a
\* kernel are destroyed one after the other, after a failure too.
ReleaseToken(t) ==
    /\ Over(t[1])
    /\ tok[t] = "granted"
    /\ tok' = [tok EXCEPT ![t] = "released"]
    /\ UNCHANGED <<requestVars, graphVars, shutdownVars>>

(***************************************************************************)
(* runtime_server::shutdown                                                *)
(***************************************************************************)

\* qubus::finalize, called by thread c when its program is over.
Finalize(c) ==
    /\ Registered
    /\ CallerFree(c)
    /\ SelfBlocking \/ ~HoldsView(c)
    /\ stage' = "finalizing"
    /\ UNCHANGED <<requestVars, graphVars, tok, visited, awaited>>

\* dataflow_graph::finalize reaches the next entry and calls get on its future...
FinalizeAwait(o) ==
    /\ stage = "finalizing"
    /\ awaited = None
    /\ wavefront[o] # None
    /\ o \notin visited
    /\ visited' = visited \cup {o}
    /\ awaited' = wavefront[o]
    /\ UNCHANGED <<requestVars, graphVars, tok, stage>>

\* Mutant: the futures are not waited for.
FinalizeDoesNotWait ==
    /\ awaited # None
    /\ awaited' = None
    /\ UNCHANGED <<requestVars, graphVars, tok, stage, visited>>

\* ... and get returns.
FinalizeGet ==
    /\ awaited # None
    /\ tok[awaited] = "released"
    /\ awaited' = None
    /\ UNCHANGED <<requestVars, graphVars, tok, stage, visited>>

\* The loop is over: the library, the VPUs, the factory, the local runtimes
\* and the address space are freed.
Teardown ==
    /\ stage = "finalizing"
    /\ awaited = None
    /\ \A o \in Objects : wavefront[o] # None => o \in visited
    /\ stage' = "down"
    /\ UNCHANGED <<requestVars, graphVars, tok, visited, awaited>>

\* The program has ended.
Terminated ==
    /\ stage = "down"
    /\ \A r \in Requests : phase[r] = "idle" \/ Over(r)
    /\ \A t \in Tokens : tok[t] \in {"unused", "released"}
    /\ UNCHANGED vars

-----------------------------------------------------------------------------

Init ==
    /\ phase = [r \in Requests |-> "idle"]
    /\ slot = [r \in Requests |-> 0]
    /\ search = [r \in Requests |-> "none"]
    /\ wavefront = [o \in Objects |-> None]
    /\ pred = [t \in Tokens |-> None]
    /\ tok = [t \in Tokens |-> "unused"]
    /\ order = [o \in Objects |-> <<>>]
    /\ stage = "up"
    /\ visited = {}
    /\ awaited = None

RequestStep(r) ==
    Call(r) \/ Lookup(r) \/ Publish(r) \/ Run(r) \/ Finish(r) \/ Fail(r) \/ OpenView(r) \/ CloseView(r)

TokenStep(t) == Grant(t) \/ ReleaseToken(t)

ShutdownStep ==
    \/ \E c \in Callers : Finalize(c)
    \/ \E o \in Objects : FinalizeAwait(o)
    \/ FinalizeGet
    \/ Teardown

Next ==
    \/ \E r \in Requests : RequestStep(r)
    \/ \E t \in Tokens : TokenStep(t)
    \/ ShutdownStep
    \/ Terminated

Spec == Init /\ [][Next]_vars

\* HPX schedules every runnable thread and continuation eventually, kernels
\* terminate and clients destroy their views.  No client is obliged to call.
Fairness ==
    /\ \A r \in Requests :
        /\ WF_vars(Lookup(r)) /\ WF_vars(Publish(r))
        /\ WF_vars(Run(r)) /\ WF_vars(Finish(r) \/ Fail(r))
        /\ WF_vars(OpenView(r)) /\ WF_vars(CloseView(r))
    /\ \A t \in Tokens : WF_vars(Grant(t)) /\ WF_vars(ReleaseToken(t))
    /\ WF_vars(\E o \in Objects : FinalizeAwait(o))
    /\ WF_vars(FinalizeGet)
    /\ WF_vars(Teardown)

FairSpec == Spec /\ Fairness

-----------------------------------------------------------------------------
(***************************************************************************)
(* Properties                                                              *)
(***************************************************************************)

\* The types of the runtime's and the clients' state.
TypeOK ==
    /\ phase \in [Requests -> Phases]
    /\ slot \in [Requests -> Nat]
    /\ \A r \in Requests : slot[r] <= Len(Accesses[r])
    /\ \A r \in Requests : phase[r] = "idle" => slot[r] = 0
    /\ \A r \in Requests : phase[r] = "scheduling" => slot[r] < Len(Accesses[r])
    /\ search \in [Requests -> {"none", "found", "missing"}]
    /\ \A r \in Requests : search[r] # "none" => phase[r] = "scheduling"
    /\ wavefront \in [Objects -> Tokens \cup {None}]
    /\ pred \in [Tokens -> Tokens \cup {None}]
    /\ tok \in [Tokens -> TokenStates]
    /\ order \in [Objects -> Seq(Tokens)]
    /\ stage \in {"up", "finalizing", "down"}
    /\ visited \subseteq Objects
    /\ awaited \in Tokens \cup {None}

\* While a kernel runs on an object or a view of it exists no other access to
\* the object is granted: what the tokens of dataflow_graph are for.
ExclusiveAccess ==
    \A s, t \in Tokens :
        s # t /\ ObjectOf[s] = ObjectOf[t] => ~(tok[s] = "granted" /\ tok[t] = "granted")

\* A kernel or view starts on an object only after every request that was
\* scheduled on the object before it is over, the failed ones included.
RunsInScheduleOrder ==
    \A o \in Objects : \A j \in 1..Len(order[o]) : \A i \in 1..(j - 1) :
        LET earlier == order[o][i][1]
            later == order[o][j][1]
        IN  earlier # later /\ phase[later] \in {"running", "finished", "failed"} => Over(earlier)

Before(o, q, r) ==
    \E j \in 1..Len(order[o]) : \E i \in 1..(j - 1) : order[o][i][1] = q /\ order[o][j][1] = r

\* No circle of requests, of whatever length, wait for each other: among any
\* requests there is one that was queued behind none of the others on any
\* object, although kernels name their objects in any order.
NoCircularWait ==
    \A S \in (SUBSET Requests) \ {{}} : \E r \in S :
        \A q \in S \ {r} : \A o \in Objects : ~Before(o, q, r)

\* When shutdown frees the VPUs and the address space nothing is pending:
\* finalize has waited for every kernel and every view.
PendingWorkFinished ==
    stage = "down" => \A r \in Requests : phase[r] \notin {"scheduling", "waiting", "running"}

\* A request is under way or a token is not released yet.
Pending ==
    \/ \E r \in Requests : phase[r] \in {"scheduling", "waiting", "running"}
    \/ \E t \in Tokens : tok[t] \in {"waiting", "granted"}

\* Something other than a further call can happen: a kernel is under way, a
\* thread that holds a view is free to close it, or the service pool has work.
CanMove ==
    \/ \E r \in Requests :
          \/ phase[r] = "scheduling"
          \/ phase[r] = "waiting" /\ AllGranted(r)
          \/ phase[r] = "running" /\ (r \in Views => Registered /\ CallerFree(Caller[r]))
    \/ \E t \in Tokens :
          \/ tok[t] = "waiting" /\ tok[pred[t]] = "released"
          \/ tok[t] = "granted" /\ Over(t[1])

\* The runtime is never deadlocked: as long as anything is pending the tokens
\* leave something to do, even if the client threads are blocked in a view or
\* in finalize and call nothing more.
NeverStuck == Pending => CanMove

\* Every kernel whose accesses are scheduled is run and every view asked for is
\* opened, whatever the kernels before it did.
EveryRequestCompletes ==
    \A r \in Requests : (phase[r] \in {"scheduling", "waiting"}) ~> Over(r)

\* shutdown returns: finalize never blocks on a future nobody will set.
ShutdownCompletes == (stage = "finalizing") ~> (stage = "down")

\* A kernel works with all of its tokens from its start to its end, and the client
\* of a view with the view's: no destructor runs early and no grant is taken back,
\* even where calls race and an object is granted twice.
HoldsTokens == \A r \in Requests : phase[r] = "running" => AllGranted(r)

\* The request names an object twice: its second token is queued behind its first.
Repeats(r) == \E i, j \in 1..Len(Accesses[r]) : i < j /\ Accesses[r][i] = Accesses[r][j]

\* A kernel called with one object for two parameters never starts, no kernel or
\* view queued behind it on an object starts either, and shutdown, which waits for
\* its last token, never frees anything: finalize blocks for ever.
RepeatsHang ==
    \A r \in Requests : Repeats(r) =>
        /\ phase[r] \in {"idle", "scheduling", "waiting"}
        /\ phase[r] # "idle" => stage # "down"
        /\ \A o \in Objects : \A q \in Requests : q # r /\ Before(o, r, q) =>
              phase[q] \in {"scheduling", "waiting"}

\* The tokens of every object behave as a first-come first-served queue.
Q == INSTANCE AccessQueue WITH
        queue <- order,
        granted <- {t \in Tokens : tok[t] = "granted"},
        released <- {t \in Tokens : tok[t] = "released"}

ImplementsAccessQueue == Q!Spec

\* In particular they are the locks that kernels and views take when they use
\* their objects: granted to one request at a time, and to each once.
Lock == INSTANCE TokenLock WITH
            Users <- Tokens,
            Target <- ObjectOf,
            holding <- {t \in Tokens : tok[t] = "granted"},
            passed <- {t \in Tokens : tok[t] = "released"}

ImplementsTokenLock == Lock!Spec

-----------------------------------------------------------------------------
(***************************************************************************)
(* The inductive invariant behind the safety properties, for clients that  *)
(* make one runtime call at a time.                                        *)
(***************************************************************************)

\* What makes the client side safe: one thread makes every call, finalize too.
SerialCallers == \A c \in Callers : \A r \in Requests : Caller[r] = c

\* What else it takes to be never stuck: a kernel that names an object twice
\* waits for a token of its own.
DistinctObjects ==
    \A r \in Requests : \A i, j \in 1..Len(Accesses[r]) :
        Accesses[r][i] = Accesses[r][j] => i = j

InQueue(t) == \E i \in 1..Len(order[ObjectOf[t]]) : order[ObjectOf[t]][i] = t

\* The token's schedule_* call has returned or at least done its look-up.
LookedUp(t) == t[2] <= slot[t[1]] \/ (t = CurrentToken(t[1]) /\ search[t[1]] # "none")

\* At most one schedule_* call is in progress, and none once finalize runs.
OneScheduler ==
    /\ \A q, r \in Requests : phase[q] = "scheduling" /\ phase[r] = "scheduling" => q = r
    /\ stage # "up" => \A r \in Requests : phase[r] # "scheduling"

\* order lists, per object, exactly the tokens looked up so far, each once.
QueueInv ==
    /\ \A o \in Objects : \A i \in 1..Len(order[o]) : ObjectOf[order[o][i]] = o
    /\ \A o \in Objects : \A i, j \in 1..Len(order[o]) : order[o][i] = order[o][j] => i = j
    /\ \A t \in Tokens : InQueue(t) <=> LookedUp(t)

\* Every token waits for the one before it, and only the first for none.
ChainInv ==
    /\ \A o \in Objects : \A i \in 1..Len(order[o]) :
        pred[order[o][i]] = IF i = 1 THEN None ELSE order[o][i - 1]
    /\ \A t \in Tokens : ~InQueue(t) => pred[t] = None /\ tok[t] = "unused"
    /\ \A t \in Tokens : tok[t] = "waiting" => pred[t] # None
    /\ \A t \in Tokens : tok[t] \in {"granted", "released"} => pred[t] # None \/ t[2] <= slot[t[1]]

\* The map names the last token of the queue, or the one before it while the
\* last token's call is between its look-up and its update of the map.
WavefrontInv ==
    /\ \A o \in Objects :
        (\A r \in Requests : search[r] # "none" => ObjectOf[CurrentToken(r)] # o)
            => wavefront[o] = IF order[o] = <<>> THEN None ELSE order[o][Len(order[o])]
    /\ \A r \in Requests : search[r] # "none" =>
        LET o == ObjectOf[CurrentToken(r)]
            n == Len(order[o])
        IN  /\ n > 0 /\ order[o][n] = CurrentToken(r)
            /\ wavefront[o] = IF n = 1 THEN None ELSE order[o][n - 1]
            /\ search[r] = "missing" <=> n = 1

\* The released tokens are a prefix of the queue and at most one more is granted.
PrefixInv ==
    \A o \in Objects : \A j \in 1..Len(order[o]) : \A i \in 1..(j - 1) :
        tok[order[o][j]] \in {"granted", "released"} => tok[order[o][i]] = "released"

\* Tokens and the phase of their request agree.
OwnerInv ==
    /\ \A r \in Requests : phase[r] \notin {"idle", "scheduling"} => slot[r] = Len(Accesses[r])
    /\ \A t \in Tokens : phase[t[1]] \in {"running", "finished", "failed"}
                            => tok[t] \in {"granted", "released"}
    /\ \A t \in Tokens : tok[t] = "released" => Over(t[1])

\* finalize has seen the release of every entry it has passed.
FinalizeInv ==
    /\ \A o \in visited : \/ wavefront[o] # None /\ tok[wavefront[o]] = "released"
                          \/ wavefront[o] # None /\ awaited = wavefront[o]
    /\ stage = "up" => visited = {} /\ awaited = None
    /\ stage = "down" => awaited = None /\ \A o \in Objects : wavefront[o] # None => o \in visited

IInv == TypeOK /\ OneScheduler /\ QueueInv /\ ChainInv /\ WavefrontInv /\ PrefixInv /\ OwnerInv /\ FinalizeInv

\* A request that has not scheduled all its accesses is queued before nobody.
LastInv ==
    \A q, r \in Requests : q # r /\ phase[q] \in {"idle", "scheduling"} =>
        \A o \in Objects : ~Before(o, q, r)

\* A token whose look-up found an older one waits for it from then on, and no
\* token is left unused when its schedule_* call returns.
PublishedInv ==
    /\ \A t \in Tokens : t[2] <= slot[t[1]] => tok[t] # "unused"
    /\ \A r \in Requests : search[r] = "found" => tok[CurrentToken(r)] # "unused"

\* The thread that called r is blocked in the call.
Busy(r) == phase[r] = "scheduling" \/ (r \in Views /\ phase[r] = "waiting")

\* One call blocks the client thread at a time, and none once finalize runs.
CallInv ==
    /\ \A q, r \in Requests : Busy(q) /\ Busy(r) => q = r
    /\ stage # "up" => \A r \in Requests : ~Busy(r)

\* While a thread waits for a view, or in finalize, nobody is queued behind the
\* views it holds.
HeldInv ==
    \A v \in Views : phase[v] = "running" =>
        /\ stage = "up"
        /\ \A w \in Views : phase[w] \in {"scheduling", "waiting"} =>
            /\ Accesses[w][1] # Accesses[v][1]
            /\ order[Accesses[v][1]][Len(order[Accesses[v][1]])] = <<v, 1>>

WaitInv == LastInv /\ NoCircularWait /\ PublishedInv /\ CallInv /\ HeldInv
=============================================================================
