------------------------ MODULE UniformFillScheduler ------------------------
(***************************************************************************)
(* The virtual processor of the runtime: an aggregate_vpu whose            *)
(* uniform_fill_scheduler gives every kernel to the member with the least  *)
(* estimated work so far.                                                  *)
(*                                                                         *)
(* schedule holds scheduling_mutex_ from the moment it takes the least     *)
(* loaded member off the priority queue until it has asked that member for *)
(* an estimate and put it back.  The estimate is a call to another         *)
(* component, possibly on another node, and may throw; then the member     *)
(* is not put back.  Work is counted in ticks of a signed integer with     *)
(* maximum MaxTicks; when a sum would overflow the whole queue is shifted  *)
(* down.                                                                   *)
(***************************************************************************)
EXTENDS Integers, FiniteSets

CONSTANTS Vpus,         \* the member VPUs
          Tasks,        \* the kernels to be scheduled
          MaxRuntime,   \* bound of the estimates, in ticks
          MaxTicks,     \* std::chrono::microseconds::max().count()
          None          \* no VPU, no task

ASSUME TicksAssumption ==
    /\ MaxRuntime \in Nat /\ MaxTicks \in Nat
    /\ MaxRuntime <= MaxTicks

ASSUME SchedulerNoneAssumption == None \notin Vpus \cup Tasks

VARIABLES
    booted,   \* has the constructor of runtime_server returned?
    members,  \* aggregate_vpu::member_vpus_
    queued,   \* the members in workloads_
    work,     \* previous_workload of each member
    holder,   \* the task whose schedule call owns scheduling_mutex_
    call,     \* how far the execute call of each task has come
    target    \* the member picked for each task

vars == <<booted, members, queued, work, holder, call, target>>

CallStates == {"idle", "locking", "estimating", "dispatching", "dispatched", "failed", "undefined"}

\* uniform_fill_scheduler::add_resource: a resource starts without any work.
AddResource(v) ==
    /\ queued' = queued \cup {v}
    /\ work' = [work EXCEPT ![v] = 0]

\* aggregate_vpu::add_member_vpu, called by the constructor of runtime_server
\* for every local runtime.
AddMember(v) ==
    /\ ~booted
    /\ v \notin members
    /\ members' = members \cup {v}
    /\ AddResource(v)
    /\ UNCHANGED <<booted, holder, call, target>>

\* The constructor returns and the clients may call execute.
Boot ==
    /\ ~booted
    /\ booted' = TRUE
    /\ UNCHANGED <<members, queued, work, holder, call, target>>

\* aggregate_vpu::execute: throws if there is no member.
Execute(t) ==
    /\ booted
    /\ call[t] = "idle"
    /\ call' = [call EXCEPT ![t] = IF members = {} THEN "failed" ELSE "locking"]
    /\ UNCHANGED <<booted, members, queued, work, holder, target>>

\* Mutant: any member is taken.
PickAny(t, v) ==
    /\ call[t] = "locking"
    /\ holder = None
    /\ v \in queued
    /\ queued' = queued \ {v}
    /\ holder' = t
    /\ target' = [target EXCEPT ![t] = v]
    /\ call' = [call EXCEPT ![t] = "estimating"]
    /\ UNCHANGED <<booted, members, work>>

\* workloads_.top() and pop() under the mutex.  Which of several equally loaded
\* members the heap yields is left open.
Pick(t, v) ==
    /\ call[t] = "locking"
    /\ holder = None
    /\ v \in queued
    /\ \A u \in queued : work[v] <= work[u]
    /\ queued' = queued \ {v}
    /\ holder' = t
    /\ target' = [target EXCEPT ![t] = v]
    /\ call' = [call EXCEPT ![t] = "estimating"]
    /\ UNCHANGED <<booted, members, work>>

\* top() of an empty queue is undefined.
PickEmpty(t) ==
    /\ call[t] = "locking"
    /\ holder = None
    /\ queued = {}
    /\ call' = [call EXCEPT ![t] = "undefined"]
    /\ UNCHANGED <<booted, members, queued, work, holder, target>>

\* Mutant: the sum is not checked for overflow.
ChargeUnchecked(v, e) == [work EXCEPT ![v] = @ + e]

\* The queue after member v has been charged with an estimate of e ticks.
Charge(v, e) ==
    IF work[v] + e > MaxTicks
    THEN [u \in Vpus |-> IF u \in queued THEN work[u] - work[v]
                         ELSE IF u = v THEN 0 ELSE work[u]]
    ELSE [work EXCEPT ![v] = @ + e]

PutBack(t) ==
    /\ queued' = queued \cup {target[t]}
    /\ holder' = None
    /\ call' = [call EXCEPT ![t] = "dispatching"]
    /\ UNCHANGED <<booted, members, target>>

\* The member answers with an estimate.
Estimated(t, e) ==
    /\ call[t] = "estimating"
    /\ work' = Charge(target[t], e)
    /\ PutBack(t)

\* Mutant: the member is put back only if there is an estimate.
NotEstimatedNotPutBack(t) ==
    /\ call[t] = "estimating"
    /\ holder' = None
    /\ call' = [call EXCEPT ![t] = "dispatching"]
    /\ UNCHANGED <<booted, members, queued, work, target>>

\* The member has no estimate for this kernel and these arguments.
NotEstimated(t) ==
    /\ call[t] = "estimating"
    /\ PutBack(t)
    /\ UNCHANGED work

\* Mutant: the mutex is unlocked by hand, and an exception skips it.
EstimateThrowsLocked(t) ==
    /\ call[t] = "estimating"
    /\ call' = [call EXCEPT ![t] = "failed"]
    /\ UNCHANGED <<booted, members, queued, work, holder, target>>

\* The estimate's future is exceptional: get throws and unwinding unlocks.
EstimateThrows(t) ==
    /\ call[t] = "estimating"
    /\ holder' = None
    /\ call' = [call EXCEPT ![t] = "failed"]
    /\ UNCHANGED <<booted, members, queued, work, target>>

\* execution_resource->execute(func, ctx), after the mutex was unlocked.
Dispatch(t) ==
    /\ call[t] = "dispatching"
    /\ call' = [call EXCEPT ![t] = "dispatched"]
    /\ UNCHANGED <<booted, members, queued, work, holder, target>>

Terminated ==
    /\ \A t \in Tasks : call[t] \in {"dispatched", "failed", "undefined"}
    /\ UNCHANGED vars

Init ==
    /\ booted = FALSE
    /\ members = {}
    /\ queued = {}
    /\ work = [v \in Vpus |-> 0]
    /\ holder = None
    /\ call = [t \in Tasks |-> "idle"]
    /\ target = [t \in Tasks |-> None]

TaskStep(t) ==
    \/ Execute(t)
    \/ \E v \in Vpus : Pick(t, v)
    \/ PickEmpty(t)
    \/ \E e \in 0..MaxRuntime : Estimated(t, e)
    \/ NotEstimated(t)
    \/ EstimateThrows(t)
    \/ Dispatch(t)

Next ==
    \/ \E v \in Vpus : AddMember(v)
    \/ Boot
    \/ \E t \in Tasks : TaskStep(t)
    \/ Terminated

Spec == Init /\ [][Next]_vars

\* The mutex is handed on in FIFO order, the estimate's future becomes ready
\* and HPX runs every runnable thread.
Fairness ==
    /\ \A t \in Tasks :
        /\ SF_vars(\E v \in Vpus : Pick(t, v))
        /\ SF_vars(PickEmpty(t))
        /\ WF_vars((\E e \in 0..MaxRuntime : Estimated(t, e)) \/ NotEstimated(t) \/ EstimateThrows(t))
        /\ WF_vars(Dispatch(t))

FairSpec == Spec /\ Fairness

-----------------------------------------------------------------------------

\* Types; the work of a member stays within the range of its integer type although
\* every kernel adds to it.
TypeOK ==
    /\ booted \in BOOLEAN
    /\ members \subseteq Vpus
    /\ queued \subseteq members
    /\ work \in [Vpus -> 0..MaxTicks]
    /\ holder \in Tasks \cup {None}
    /\ call \in [Tasks -> CallStates]
    /\ target \in [Tasks -> Vpus \cup {None}]

\* The members taking part in scheduling: the queue and the member just popped.
Active == queued \cup (IF holder = None THEN {} ELSE {target[holder]})

\* No member is ever ahead of another by more than the longest estimate, the
\* shifts of the queue at the integer limit included.
Balanced == \A u, v \in Active : work[u] - work[v] <= MaxRuntime

\* A member leaves the queue for good only through a failed estimate of its own.
LostOnlyByThrow ==
    members \ Active = {target[t] : t \in {s \in Tasks : call[s] = "failed" /\ target[s] # None}}

\* A schedule call changes the distance of the member it has picked from the others
\* only, by the estimate at most and never downwards; shifting the queue at the
\* integer limit leaves the distances of all others as they were.
ChargesThePickedOnly ==
    [][/\ \A u, v \in queued : work'[u] - work'[v] = work[u] - work[v]
       /\ holder # None =>
            LET picked == target[holder]
            IN  \A u \in queued :
                    (work'[picked] - work'[u]) - (work[picked] - work[u]) \in 0..MaxRuntime]_vars

\* Every kernel handed to the virtual processor is dispatched or its call fails:
\* the mutex is always given up.
EveryCallReturns ==
    \A t \in Tasks : (call[t] = "locking") ~> (call[t] \in {"dispatched", "failed", "undefined"})
-----------------------------------------------------------------------------
(***************************************************************************)
(* The inductive invariant                                                 *)
(***************************************************************************)

\* The owner of the mutex holds the least loaded member, which is off the queue.
HolderInv ==
    /\ \A t \in Tasks : call[t] = "estimating" <=> holder = t
    /\ holder # None =>
        /\ target[holder] \in members \ queued
        /\ \A u \in queued : work[target[holder]] <= work[u]

\* Nothing is charged or scheduled before the runtime is up, and a task has no
\* member before its schedule call picks one.
BootInv ==
    /\ ~booted => work = [v \in Vpus |-> 0] /\ \A t \in Tasks : call[t] = "idle"
    /\ \A t \in Tasks : call[t] \in {"idle", "locking"} => target[t] = None

IInv == TypeOK /\ HolderInv /\ BootInv /\ Balanced /\ LostOnlyByThrow
=============================================================================
