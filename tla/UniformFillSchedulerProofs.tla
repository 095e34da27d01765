--------------------- MODULE UniformFillSchedulerProofs ---------------------
(***************************************************************************)
(* Proofs about UniformFillScheduler, for any set of VPUs and tasks and    *)
(* any integer limit.                                                      *)
(***************************************************************************)
EXTENDS UniformFillScheduler, TLAPS

LEMMA InvInit == Init => IInv
<1> SUFFICES ASSUME Init PROVE IInv
    OBVIOUS
<1>1. TypeOK /\ HolderInv /\ BootInv
    <2>1. TypeOK
        <3>1. 0 \in 0..MaxTicks
            BY TicksAssumption
        <3>2. booted \in BOOLEAN /\ work \in [Vpus -> 0..MaxTicks]
            BY <3>1, Zenon DEF Init
        <3> QED
            BY <3>2 DEF Init, TypeOK, CallStates
    <2>2. HolderInv /\ BootInv
        BY SchedulerNoneAssumption DEF Init, HolderInv, BootInv
    <2> QED
        BY <2>1, <2>2
<1>2. Active = {}
    BY DEF Init, Active
<1>3. Balanced /\ LostOnlyByThrow
    BY <1>2 DEF Init, Balanced, LostOnlyByThrow
<1> QED
    BY <1>1, <1>3 DEF IInv

\* While the estimate is awaited the active members are the queue and the target.
LEMMA ActiveWhileEstimating ==
    ASSUME IInv, NEW t \in Tasks, call[t] = "estimating"
    PROVE  /\ holder = t /\ target[t] \in members \ queued
           /\ Active = queued \cup {target[t]}
           /\ \A u \in queued : work[target[t]] <= work[u]
<1>1. holder = t /\ holder # None
    BY SchedulerNoneAssumption DEF IInv, HolderInv
<1> QED
    BY <1>1 DEF IInv, HolderInv, Active

LEMMA AddMemberStep ==
    ASSUME IInv, NEW v \in Vpus, AddMember(v)
    PROVE  IInv'
<1> USE DEF IInv
<1>1. UNCHANGED <<booted, holder, call, target>> /\ ~booted /\ v \notin members
    BY DEF AddMember, AddResource
<1>2. holder = None
    BY <1>1 DEF BootInv, HolderInv, TypeOK
<1>3. Active = queued /\ Active' = queued \cup {v}
    BY <1>1, <1>2 DEF Active, AddMember, AddResource
<1>4. work' = [u \in Vpus |-> 0]
    BY <1>1 DEF AddMember, AddResource, BootInv
<1>5. TypeOK' /\ HolderInv' /\ BootInv'
    <2>1. TypeOK'
        BY <1>1, <1>4, TicksAssumption DEF AddMember, AddResource, TypeOK
    <2>2. HolderInv' /\ BootInv'
        BY <1>1, <1>2, <1>4 DEF HolderInv, BootInv
    <2> QED
        BY <2>1, <2>2
<1>6. Balanced'
    <2>1. \A u \in Active' : work'[u] = 0
        BY <1>3, <1>4 DEF TypeOK
    <2> QED
        BY <2>1, TicksAssumption DEF Balanced
<1>7. LostOnlyByThrow'
    BY <1>1, <1>3 DEF AddMember, AddResource, LostOnlyByThrow
<1> QED
    BY <1>5, <1>6, <1>7

LEMMA ExecuteStep ==
    ASSUME IInv, NEW t \in Tasks, Execute(t) \/ PickEmpty(t) \/ Dispatch(t)
    PROVE  IInv'
<1> USE DEF IInv
<1>1. /\ UNCHANGED <<booted, members, queued, work, holder, target>>
      /\ booted /\ call[t] \in {"idle", "locking", "dispatching"}
      /\ call'[t] \in {"failed", "locking", "undefined", "dispatched"}
      /\ \A s \in Tasks : s # t => call'[s] = call[s]
      /\ call' \in [Tasks -> CallStates]
    BY DEF Execute, PickEmpty, Dispatch, TypeOK, CallStates, BootInv
<1>2. call'[t] = "failed" => target[t] = None
    BY DEF Execute, PickEmpty, Dispatch, BootInv, TypeOK
<1>3. TypeOK' /\ HolderInv'
    BY <1>1 DEF TypeOK, HolderInv
<1>4. BootInv'
    BY <1>1 DEF BootInv, Execute, PickEmpty, Dispatch, TypeOK
<1>5. Active' = Active
    BY <1>1 DEF Active
<1>6. Balanced' /\ LostOnlyByThrow'
    <2>1. \A s \in Tasks : (call'[s] = "failed" /\ target'[s] # None) <=> (call[s] = "failed" /\ target[s] # None)
        BY <1>1, <1>2
    <2> QED
        BY <1>1, <1>5, <2>1 DEF Balanced, LostOnlyByThrow
<1> QED
    BY <1>3, <1>4, <1>6

LEMMA PickStep ==
    ASSUME IInv, NEW t \in Tasks, NEW v \in Vpus, Pick(t, v)
    PROVE  IInv'
<1> USE DEF IInv
<1>1. /\ UNCHANGED <<booted, members, work>>
      /\ holder = None /\ holder' = t /\ t # None
      /\ v \in queued /\ queued' = queued \ {v}
      /\ target'[t] = v /\ target' \in [Tasks -> Vpus \cup {None}]
      /\ \A s \in Tasks : s # t => target'[s] = target[s] /\ call'[s] = call[s]
      /\ call[t] = "locking" /\ call'[t] = "estimating" /\ call' \in [Tasks -> CallStates]
    BY SchedulerNoneAssumption DEF Pick, TypeOK, CallStates
<1>2. TypeOK'
    BY <1>1 DEF TypeOK
<1>3. HolderInv'
    <2>1. \A s \in Tasks : call[s] # "estimating"
        BY <1>1, SchedulerNoneAssumption DEF HolderInv
    <2>2. \A s \in Tasks : call'[s] = "estimating" <=> holder' = s
        BY <1>1, <2>1
    <2>3. target'[t] \in members' \ queued' /\ \A u \in queued' : work'[target'[t]] <= work'[u]
        BY <1>1 DEF Pick, TypeOK
    <2> QED
        BY <1>1, <2>2, <2>3 DEF HolderInv
<1>4. BootInv'
    BY <1>1 DEF BootInv
<1>5. Active' = Active
    BY <1>1 DEF Active
<1>6. Balanced' /\ LostOnlyByThrow'
    <2>1. {target'[s] : s \in {q \in Tasks : call'[q] = "failed" /\ target'[q] # None}}
            = {target[s] : s \in {q \in Tasks : call[q] = "failed" /\ target[q] # None}}
        BY <1>1
    <2> QED
        BY <1>1, <1>5, <2>1 DEF Balanced, LostOnlyByThrow
<1> QED
    BY <1>2, <1>3, <1>4, <1>6

\* Charging the least loaded member keeps every workload within the integer
\* range and every difference within the longest estimate.
LEMMA ChargeFacts ==
    ASSUME IInv, NEW t \in Tasks, call[t] = "estimating", NEW e \in 0..MaxRuntime
    PROVE  /\ Charge(target[t], e) \in [Vpus -> 0..MaxTicks]
           /\ \A u, v \in queued \cup {target[t]} :
                Charge(target[t], e)[u] - Charge(target[t], e)[v] <= MaxRuntime
<1> DEFINE v == target[t]
           w == Charge(v, e)
<1>1. /\ v \in Vpus /\ v \notin queued /\ queued \subseteq Vpus
      /\ \A u \in queued : work[v] <= work[u]
      /\ \A p, q \in queued \cup {v} : work[p] - work[q] <= MaxRuntime
    BY ActiveWhileEstimating DEF IInv, TypeOK, Balanced
<1>2. \A u \in Vpus : work[u] \in 0..MaxTicks
    BY DEF IInv, TypeOK
<1>3. CASE work[v] + e > MaxTicks
    <2>1. \A u \in Vpus : w[u] = IF u \in queued THEN work[u] - work[v] ELSE IF u = v THEN 0 ELSE work[u]
        BY <1>3 DEF Charge
    <2>2. w \in [Vpus -> 0..MaxTicks]
        <3>1. \A u \in Vpus : w[u] \in 0..MaxTicks
            BY <1>1, <1>2, <2>1, TicksAssumption
        <3> QED
            BY <1>3, <3>1 DEF Charge
    <2> QED
        BY <1>1, <1>2, <2>1, <2>2, TicksAssumption
<1>4. CASE ~(work[v] + e > MaxTicks)
    <2>1. w = [work EXCEPT ![v] = @ + e]
        BY <1>4 DEF Charge
    <2>2. w[v] = work[v] + e /\ \A u \in Vpus : u # v => w[u] = work[u]
        BY <1>1, <2>1 DEF IInv, TypeOK
    <2>3. w \in [Vpus -> 0..MaxTicks]
        BY <1>1, <1>2, <1>4, <2>1, TicksAssumption DEF IInv, TypeOK
    <2> QED
        BY <1>1, <1>2, <2>2, <2>3, TicksAssumption
<1> QED
    BY <1>3, <1>4

LEMMA PutBackStep ==
    ASSUME IInv, NEW t \in Tasks,
           (\E e \in 0..MaxRuntime : Estimated(t, e)) \/ NotEstimated(t)
    PROVE  IInv'
<1> USE DEF IInv
<1>1. /\ call[t] = "estimating" /\ call'[t] = "dispatching" /\ call' \in [Tasks -> CallStates]
      /\ \A s \in Tasks : s # t => call'[s] = call[s]
      /\ UNCHANGED <<booted, members, target>>
      /\ queued' = queued \cup {target[t]} /\ holder' = None
    BY DEF Estimated, NotEstimated, PutBack, TypeOK, CallStates
<1>2. /\ holder = t /\ target[t] \in members \ queued
      /\ Active = queued \cup {target[t]}
    BY <1>1, ActiveWhileEstimating
<1>3. Active' = Active
    BY <1>1, <1>2 DEF Active
<1>4. /\ work' \in [Vpus -> 0..MaxTicks]
      /\ \A u, v \in Active : work'[u] - work'[v] <= MaxRuntime
    <2>1. ASSUME NEW e \in 0..MaxRuntime, Estimated(t, e) PROVE <1>4!:
        BY <1>1, <1>2, <2>1, ChargeFacts DEF Estimated
    <2>2. ASSUME NotEstimated(t) PROVE <1>4!:
        BY <2>2 DEF NotEstimated, TypeOK, Balanced
    <2> QED
        BY <2>1, <2>2
<1>5. TypeOK'
    BY <1>1, <1>2, <1>4 DEF TypeOK
<1>6. HolderInv' /\ BootInv'
    <2>1. booted
        BY <1>1 DEF BootInv
    <2> QED
        BY <1>1, <1>2, <2>1, SchedulerNoneAssumption DEF HolderInv, BootInv
<1>7. Balanced'
    BY <1>3, <1>4 DEF Balanced
<1>8. LostOnlyByThrow'
    <2>1. {target'[s] : s \in {q \in Tasks : call'[q] = "failed" /\ target'[q] # None}}
            = {target[s] : s \in {q \in Tasks : call[q] = "failed" /\ target[q] # None}}
        BY <1>1
    <2> QED
        BY <1>1, <1>3, <2>1 DEF LostOnlyByThrow
<1> QED
    BY <1>5, <1>6, <1>7, <1>8

LEMMA ThrowStep ==
    ASSUME IInv, NEW t \in Tasks, EstimateThrows(t)
    PROVE  IInv'
<1> USE DEF IInv
<1>1. /\ call[t] = "estimating" /\ call'[t] = "failed" /\ call' \in [Tasks -> CallStates]
      /\ \A s \in Tasks : s # t => call'[s] = call[s]
      /\ UNCHANGED <<booted, members, queued, work, target>> /\ holder' = None
    BY DEF EstimateThrows, TypeOK, CallStates
<1>2. /\ holder = t /\ target[t] \in members \ queued
      /\ Active = queued \cup {target[t]} /\ target[t] # None
    BY <1>1, ActiveWhileEstimating, SchedulerNoneAssumption DEF TypeOK
<1>3. Active' = queued
    BY <1>1 DEF Active
<1>4. TypeOK' /\ HolderInv' /\ BootInv'
    <2>1. booted
        BY <1>1 DEF BootInv
    <2> QED
        BY <1>1, <1>2, <2>1, SchedulerNoneAssumption DEF TypeOK, HolderInv, BootInv
<1>5. Balanced'
    BY <1>1, <1>2, <1>3 DEF Balanced
<1>6. LostOnlyByThrow'
    <2>1. {target'[s] : s \in {q \in Tasks : call'[q] = "failed" /\ target'[q] # None}}
            = {target[s] : s \in {q \in Tasks : call[q] = "failed" /\ target[q] # None}} \cup {target[t]}
        BY <1>1, <1>2
    <2>2. members \ queued = (members \ Active) \cup {target[t]}
        BY <1>2
    <2> QED
        BY <1>1, <1>3, <2>1, <2>2 DEF LostOnlyByThrow
<1> QED
    BY <1>4, <1>5, <1>6

LEMMA InvStep == IInv /\ [Next]_vars => IInv'
<1> SUFFICES ASSUME IInv, [Next]_vars PROVE IInv'
    OBVIOUS
<1>1. ASSUME NEW t \in Tasks, TaskStep(t) PROVE IInv'
    BY <1>1, ExecuteStep, PickStep, PutBackStep, ThrowStep DEF TaskStep
<1>2. ASSUME Boot \/ UNCHANGED vars PROVE IInv'
    <2>1. UNCHANGED <<members, queued, work, holder, call, target>> /\ (booted => booted') /\ booted' \in BOOLEAN
        BY <1>2 DEF Boot, vars, IInv, TypeOK
    <2>2. Active' = Active
        BY <2>1 DEF Active
    <2> QED
        BY <2>1, <2>2 DEF IInv, TypeOK, HolderInv, BootInv, Balanced, LostOnlyByThrow
<1> QED
    BY <1>1, <1>2, AddMemberStep DEF Next, Terminated

\* Workloads stay within the integer range, before and after every shift.
THEOREM TypeCorrect == Spec => []TypeOK
<1>1. IInv => TypeOK
    BY DEF IInv
<1> QED
    BY <1>1, InvInit, InvStep, PTL DEF Spec

\* The spread of the workloads never exceeds the longest estimate.
THEOREM BalancedCorrect == Spec => []Balanced
<1>1. IInv => Balanced
    BY DEF IInv
<1> QED
    BY <1>1, InvInit, InvStep, PTL DEF Spec

\* Only a throwing estimate removes a member from the scheduler.
THEOREM LostOnlyByThrowCorrect == Spec => []LostOnlyByThrow
<1>1. IInv => LostOnlyByThrow
    BY DEF IInv
<1> QED
    BY <1>1, InvInit, InvStep, PTL DEF Spec

\* What one step does to the distances between members.
LEMMA DistanceStep ==
    ASSUME IInv, [Next]_vars
    PROVE  /\ \A u, v \in queued : work'[u] - work'[v] = work[u] - work[v]
           /\ holder # None =>
                \A u \in queued :
                    (work'[target[holder]] - work'[u]) - (work[target[holder]] - work[u]) \in 0..MaxRuntime
<1> DEFINE Kept(w) ==
        /\ \A u, v \in queued : w[u] - w[v] = work[u] - work[v]
        /\ holder # None =>
             \A u \in queued :
                 (w[target[holder]] - w[u]) - (work[target[holder]] - work[u]) \in 0..MaxRuntime
<1>1. /\ \A u \in Vpus : work[u] \in 0..MaxTicks
      /\ queued \subseteq Vpus /\ members \subseteq Vpus
      /\ holder # None => target[holder] \in Vpus
    BY DEF IInv, TypeOK, HolderInv
<1>2. Kept(work)
    BY <1>1, TicksAssumption
<1>3. ASSUME NEW t \in Tasks, NEW e \in 0..MaxRuntime, Estimated(t, e) PROVE Kept(work')
    <2> DEFINE v == target[t]
    <2>1. /\ holder = t /\ v \in members \ queued
          /\ work' = Charge(v, e)
        BY <1>3, ActiveWhileEstimating DEF Estimated
    <2>2. v \in Vpus /\ v \notin queued
        BY <1>1, <2>1
    <2>3. CASE work[v] + e > MaxTicks
        <3>1. \A u \in Vpus : work'[u] = IF u \in queued THEN work[u] - work[v] ELSE IF u = v THEN 0 ELSE work[u]
            BY <2>1, <2>3 DEF Charge
        <3>2. \A u, q \in queued : work'[u] - work'[q] = work[u] - work[q]
            <4>1. \A u \in queued : work[u] \in Int /\ work'[u] = work[u] - work[v]
                BY <1>1, <3>1, TicksAssumption
            <4>2. work[v] \in Int
                BY <1>1, <2>2, TicksAssumption
            <4> QED
                BY <4>1, <4>2
        <3>3. \A u \in queued : work'[v] - work'[u] = work[v] - work[u]
            BY <1>1, <2>2, <3>1, TicksAssumption
        <3>4. \A u \in queued : (work'[v] - work'[u]) - (work[v] - work[u]) = 0
            <4>1. \A u \in queued : work[v] - work[u] \in Int
                BY <1>1, <2>2, TicksAssumption
            <4> QED
                BY <3>3, <4>1
        <3> QED
            BY <2>1, <3>2, <3>4, TicksAssumption
    <2>4. CASE ~(work[v] + e > MaxTicks)
        <3>1. work'[v] = work[v] + e /\ \A u \in Vpus : u # v => work'[u] = work[u]
            BY <2>1, <2>2, <2>4 DEF Charge, IInv, TypeOK
        <3>2. \A u, q \in queued : work'[u] - work'[q] = work[u] - work[q]
            BY <1>1, <2>2, <3>1
        <3>3. \A u \in queued : (work'[v] - work'[u]) - (work[v] - work[u]) = e
            BY <1>1, <2>2, <3>1, TicksAssumption
        <3> QED
            BY <2>1, <3>2, <3>3
    <2> QED
        BY <2>3, <2>4
<1>4. ASSUME NEW v \in Vpus, AddMember(v) PROVE Kept(work')
    <2>1. \A u \in queued : work'[u] = work[u]
        BY <1>4 DEF AddMember, AddResource, IInv, TypeOK
    <2>2. holder = None
        <3>1. \A t \in Tasks : call[t] # "estimating"
            BY <1>4 DEF AddMember, IInv, BootInv
        <3> QED
            BY <3>1 DEF IInv, TypeOK, HolderInv
    <2> QED
        BY <1>2, <2>1, <2>2
<1>5. ASSUME NEW t \in Tasks,
             \/ Execute(t) \/ PickEmpty(t) \/ NotEstimated(t) \/ EstimateThrows(t) \/ Dispatch(t)
             \/ \E v \in Vpus : Pick(t, v)
      PROVE  work' = work
    BY <1>5 DEF Execute, PickEmpty, NotEstimated, EstimateThrows, Dispatch, Pick
<1>6. ASSUME Boot \/ UNCHANGED vars PROVE work' = work
    BY <1>6 DEF Boot, vars
<1>7. Kept(work')
    <2>1. CASE work' = work
        BY <1>2, <2>1
    <2> QED
        BY <2>1, <1>3, <1>4, <1>5, <1>6 DEF Next, TaskStep, Terminated
<1> QED
    BY <1>7

\* Charging a member, with or without a shift, is fair to all the others.
THEOREM ChargesThePickedOnlyCorrect == Spec => ChargesThePickedOnly
<1>1. IInv /\ [Next]_vars =>
        [/\ \A u, v \in queued : work'[u] - work'[v] = work[u] - work[v]
         /\ holder # None =>
              LET picked == target[holder]
              IN  \A u \in queued :
                      (work'[picked] - work'[u]) - (work[picked] - work[u]) \in 0..MaxRuntime]_vars
    BY DistanceStep
<1> QED
    BY <1>1, InvInit, InvStep, PTL DEF Spec, ChargesThePickedOnly
=============================================================================
