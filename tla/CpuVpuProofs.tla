---------------------------- MODULE CpuVpuProofs ----------------------------
(***************************************************************************)
(* Proofs about CpuVpu, for any calls, kernels, modules and keys, and for  *)
(* any number of data points that is enough for a training.                *)
(***************************************************************************)
EXTENDS CpuVpu, TLAPS

\* A data point is counted, whatever becomes of the model ...
LEMMA DatapointCounts ==
    ASSUME NEW d \in Data, NEW e \in AddDatapoint(d)
    PROVE  e \in Data /\ e.points = d.points + 1
<1>1. Counted(d) \in Data /\ Counted(d).points = d.points + 1
    BY DEF Data, Counted
<1>2. Update(Counted(d)) \in Data /\ Update(Counted(d)).points = Counted(d).points
    BY <1>1 DEF Data, Update
<1>3. e = Counted(d) \/ e = Update(Counted(d))
    BY DEF AddDatapoint
<1> QED
    BY <1>1, <1>2, <1>3

\* ... and an untrained model stays untrained.
LEMMA DatapointDoesNotTrain ==
    ASSUME NEW d \in Data, ~d.trained, NEW e \in AddDatapoint(d)
    PROVE  ~e.trained
<1>1. Counted(d).trained = d.trained
    BY DEF Counted
<1>2. Accuracies(Counted(d)) = {"none"}
    BY <1>1 DEF Accuracies
<1>3. e = Counted(d)
    BY <1>2 DEF AddDatapoint, ExceedsMinimal, ExceedsTarget
<1> QED
    BY <1>1, <1>3

LEMMA SampledData ==
    ASSUME TypeOK, NEW c \in Calls, NEW e \in Sampled(c)
    PROVE  /\ e \in Data /\ e.points > 0
           /\ UntrainedInv => ~e.trained
<1>1. StatsOf(c) \in Data
    BY CallsAssumption DEF TypeOK, StatsOf
<1>2. UntrainedInv => ~StatsOf(c).trained
    BY CallsAssumption DEF UntrainedInv, StatsOf
<1>3. CASE Func[c] \in Scalar
    <2>1. e \in AddDatapoint(StatsOf(c))
        BY <1>3 DEF Sampled
    <2>2. StatsOf(c).points \in Nat
        BY <1>1 DEF Data
    <2> QED
        BY <1>1, <1>2, <2>1, <2>2, DatapointCounts, DatapointDoesNotTrain
<1>4. CASE Func[c] \notin Scalar
    <2>1. e = Counted(StatsOf(c))
        BY <1>4 DEF Sampled
    <2> QED
        BY <1>1, <1>2, <2>1 DEF Data, Counted
<1> QED
    BY <1>3, <1>4
-----------------------------------------------------------------------------

LEMMA TypeInit == Init => TypeOK
<1> SUFFICES ASSUME Init PROVE TypeOK
    OBVIOUS
<1>1. crashed \in BOOLEAN
    BY Zenon DEF Init
<1>2. stats \in [Funcs -> [Keys -> Data]]
    BY DEF Init, Data, NoData
<1> QED
    BY <1>1, <1>2, CallsAssumption DEF Init, TypeOK, CallStates

LEMMA TypeCallStep ==
    ASSUME TypeOK, NEW c \in Calls, CallStep(c)
    PROVE  TypeOK'
<1> USE CallsAssumption DEF TypeOK, CallStates
<1>1. CASE Ask(c)
    BY <1>1 DEF Ask, libraryVars, cacheVars, modelVars
<1>2. CASE AskThrows(c)
    BY <1>2 DEF AskThrows, libraryVars, cacheVars, modelVars
<1>3. CASE Lookup(c)
    BY <1>3 DEF Lookup, libraryVars, modelVars
<1>4. CASE Compiled(c)
    <2>1. compiled' \in [Modules -> Nat] /\ cache' \subseteq Modules
        BY <1>4 DEF Compiled, ModuleOf
    <2> QED
        BY <1>4, <2>1 DEF Compiled, libraryVars, modelVars
<1>5. CASE CompilationThrows(c)
    BY <1>5 DEF CompilationThrows, libraryVars, modelVars
<1>6. CASE RunKernel(c)
    BY <1>6 DEF RunKernel, libraryVars, cacheVars, modelVars
<1>7. CASE ResolveThrows(c)
    BY <1>7 DEF ResolveThrows, libraryVars, cacheVars, modelVars
<1>8. CASE Sample(c)
    <2>1. PICK e \in Sampled(c) : stats' = [stats EXCEPT ![Func[c]][Key[c]] = e]
        BY <1>8 DEF Sample
    <2>2. e \in Data
        BY SampledData
    <2>3. stats' \in [Funcs -> [Keys -> Data]]
        BY <2>1, <2>2
    <2> QED
        BY <1>8, <2>3 DEF Sample, libraryVars, cacheVars
<1>9. CASE SampleThrows(c)
    BY <1>9 DEF SampleThrows, libraryVars, cacheVars
<1>10. CASE LookupCrashes(c)
    <2>1. crashed' \in BOOLEAN
        BY <1>10, Zenon DEF LookupCrashes
    <2> QED
        BY <1>10, <2>1 DEF LookupCrashes, libraryVars, cacheVars, modelVars
<1> QED
    BY <1>1, <1>2, <1>3, <1>4, <1>5, <1>6, <1>7, <1>8, <1>9, <1>10 DEF CallStep, CompileStep, TaskStep

\* Adding a module changes only the library.
OtherVars == <<cacheVars, pc, estimate, ran, modelVars>>

LEMMA QuietStep ==
    ASSUME TypeOK, LibraryStep \/ UNCHANGED vars
    PROVE  TypeOK' /\ UNCHANGED OtherVars
<1>1. CASE LibraryStep
    <2> PICK m \in Modules : AddBegin(m) \/ AddEnd(m)
        BY <1>1 DEF LibraryStep
    <2>1. UNCHANGED OtherVars /\ UNCHANGED crashed
        BY DEF AddBegin, AddEnd, OtherVars
    <2>2. library' \subseteq Modules /\ adding' \subseteq Modules
        BY DEF AddBegin, AddEnd, TypeOK
    <2> QED
        BY <2>1, <2>2 DEF TypeOK, OtherVars, cacheVars, modelVars
<1>2. CASE UNCHANGED vars
    BY <1>2 DEF TypeOK, OtherVars, cacheVars, modelVars, vars
<1> QED
    BY <1>1, <1>2

\* The library, the cache, the calls and the models always have their types, and
\* cache_mutex_ is held by the call that compiles and by no other.
THEOREM TypeCorrect == Spec => []TypeOK
<1>1. TypeOK /\ [Next]_vars => TypeOK'
    BY TypeCallStep, QuietStep DEF Next, Terminated
<1> QED
    BY TypeInit, <1>1, PTL DEF Spec
-----------------------------------------------------------------------------

LEMMA InvInit == Init => IInv
<1> SUFFICES ASSUME Init PROVE IInv
    OBVIOUS
<1>1. CompileInv
    BY DEF Init, CompileInv, CompiledOnce
<1>2. RunInv /\ UntrainedInv
    BY DEF Init, RunInv, UntrainedInv, NoData
<1>3. EstimateFromRun /\ ScalarsNeverEstimated
    BY DEF Init, EstimateFromRun, ScalarsNeverEstimated, HasEstimate
<1> QED
    BY TypeInit, <1>1, <1>2, <1>3 DEF IInv

LEMMA InvQuiet ==
    ASSUME IInv, TypeOK', UNCHANGED OtherVars
    PROVE  IInv'
<1> USE DEF IInv, OtherVars, cacheVars, modelVars
<1>1. CompileInv'
    BY DEF CompileInv, CompiledOnce, ModuleOf
<1>2. RunInv' /\ UntrainedInv'
    BY DEF RunInv, UntrainedInv, StatsOf
<1>3. EstimateFromRun' /\ ScalarsNeverEstimated'
    BY DEF EstimateFromRun, ScalarsNeverEstimated, HasEstimate, StatsOf
<1> QED
    BY <1>1, <1>2, <1>3

LEMMA CompileInvStep ==
    ASSUME IInv, NEW c \in Calls, CallStep(c)
    PROVE  CompileInv'
<1> USE CallsAssumption DEF IInv, TypeOK
<1>1. CASE Lookup(c)
    BY <1>1 DEF Lookup, CompileInv, CompiledOnce, ModuleOf
<1>2. CASE Compiled(c)
    <2> DEFINE n == ModuleOf(c)
    <2>1. n \in Modules /\ n \notin cache /\ compiled[n] = 0
        BY <1>2 DEF Compiled, CompileInv, CompiledOnce, ModuleOf
    <2>2. cache' = cache \cup {n} /\ compiled' = [compiled EXCEPT ![n] = compiled[n] + 1]
        BY <1>2 DEF Compiled
    <2>3. ASSUME NEW m \in Modules
          PROVE  compiled'[m] = IF m \in cache' THEN 1 ELSE 0
        <3> HIDE DEF n
        <3>1. CASE m = n
            BY <2>1, <2>2, <3>1
        <3>2. CASE m # n
            BY <2>2, <3>2 DEF CompileInv, CompiledOnce
        <3> QED
            BY <3>1, <3>2
    <2>4. \A d \in Calls : pc'[d] # "compiling"
        BY <1>2 DEF Compiled
    <2> QED
        BY <2>3, <2>4 DEF CompileInv, CompiledOnce
<1>3. CASE ~Lookup(c) /\ ~Compiled(c)
    <2>1. compiled' = compiled /\ cache' = cache
        BY <1>3 DEF CallStep, Ask, AskThrows, CompileStep, TaskStep, CompilationThrows, RunKernel,
                    ResolveThrows, Sample, SampleThrows, LookupCrashes, cacheVars
    <2>2. \A d \in Calls : pc'[d] = "compiling" => pc[d] = "compiling"
        BY <1>3 DEF CallStep, Ask, AskThrows, CompileStep, TaskStep, CompilationThrows, RunKernel,
                    ResolveThrows, Sample, SampleThrows, LookupCrashes
    <2> QED
        BY <2>1, <2>2 DEF CompileInv, CompiledOnce, ModuleOf
<1> QED
    BY <1>1, <1>2, <1>3

\* What a step of call c does to the data of the performance models.
LEMMA StatsStep ==
    ASSUME IInv, NEW c \in Calls, CallStep(c)
    PROVE  /\ models \subseteq models' /\ ran \subseteq ran'
           /\ \A g \in Funcs, k \in Keys :
                 stats'[g][k] = stats[g][k]
                 \/ /\ Sample(c) /\ g = Func[c] /\ k = Key[c]
                    /\ stats'[g][k].points > 0 /\ ~stats'[g][k].trained
           /\ Sample(c) => Func[c] \in models' /\ stats'[Func[c]][Key[c]].points > 0
<1> USE CallsAssumption DEF IInv, TypeOK
<1>1. CASE Sample(c)
    <2>1. PICK e \in Sampled(c) : stats' = [stats EXCEPT ![Func[c]][Key[c]] = e]
        BY <1>1 DEF Sample
    <2>2. e.points > 0 /\ ~e.trained
        BY SampledData
    <2>3. \A g \in Funcs, k \in Keys :
             stats'[g][k] = IF g = Func[c] /\ k = Key[c] THEN e ELSE stats[g][k]
        BY <2>1
    <2>4. models \subseteq models' /\ ran \subseteq ran' /\ Func[c] \in models'
        BY <1>1 DEF Sample
    <2>5. Func[c] \in Funcs /\ Key[c] \in Keys
        OBVIOUS
    <2> HIDE DEF IInv, TypeOK
    <2> QED
        BY <1>1, <2>2, <2>3, <2>4, <2>5
<1>2. CASE ~Sample(c)
    BY <1>2 DEF CallStep, Ask, AskThrows, CompileStep, TaskStep, Lookup, Compiled, CompilationThrows,
                RunKernel, ResolveThrows, SampleThrows, LookupCrashes, modelVars
<1> QED
    BY <1>1, <1>2

LEMMA RunInvStep ==
    ASSUME IInv, NEW c \in Calls, CallStep(c)
    PROVE  RunInv'
<1> USE CallsAssumption DEF IInv, TypeOK
<1>1. ASSUME NEW d \in Calls
      PROVE  /\ pc'[d] \in {"idle", "asked", "compiling", "running"} => d \notin ran'
             /\ pc'[d] = "sampling" => d \in ran'
             /\ pc'[d] = "idle" => estimate'[d] = "unasked"
    <2>1. CASE d # c
        <3>1. pc'[d] = pc[d] /\ estimate'[d] = estimate[d] /\ (d \in ran' <=> d \in ran)
            BY <2>1 DEF CallStep, Ask, AskThrows, CompileStep, TaskStep, Lookup, Compiled, CompilationThrows,
                        RunKernel, ResolveThrows, Sample, SampleThrows, LookupCrashes
        <3> QED
            BY <3>1 DEF RunInv
    <2>2. CASE d = c /\ RunKernel(c)
        BY <2>2 DEF RunKernel
    <2>3. CASE d = c /\ ~RunKernel(c)
        <3>1. ran' = ran
            BY <2>3 DEF CallStep, Ask, AskThrows, CompileStep, TaskStep, Lookup, Compiled, CompilationThrows,
                        ResolveThrows, Sample, SampleThrows, LookupCrashes
        <3>2. \/ pc'[c] = pc[c] /\ estimate' = estimate
              \/ /\ pc'[c] # "sampling" /\ pc'[c] # "idle"
                 /\ pc'[c] \in {"asked", "compiling", "running"} => pc[c] \in {"idle", "asked", "compiling"}
            BY <2>3 DEF CallStep, Ask, AskThrows, CompileStep, TaskStep, Lookup, Compiled, CompilationThrows,
                        ResolveThrows, Sample, SampleThrows, LookupCrashes
        <3> QED
            BY <2>3, <3>1, <3>2 DEF RunInv
    <2> QED
        BY <2>1, <2>2, <2>3
<1>2. ASSUME NEW d \in Calls, pc'[d] = "done"
      PROVE  Func[d] \in models' /\ stats'[Func[d]][Key[d]].points > 0
    <2>1. CASE pc[d] = "done"
        BY <2>1, StatsStep DEF RunInv, StatsOf
    <2>2. CASE pc[d] # "done"
        <3>1. d = c /\ Sample(c)
            BY <1>2, <2>2 DEF CallStep, Ask, AskThrows, CompileStep, TaskStep, Lookup, Compiled,
                              CompilationThrows, RunKernel, ResolveThrows, Sample, SampleThrows,
                              LookupCrashes
        <3> QED
            BY <3>1, StatsStep
    <2> QED
        BY <2>1, <2>2
<1>3. ASSUME NEW g \in Funcs, NEW k \in Keys, stats'[g][k].points > 0
      PROVE  \E d \in ran' : Func[d] = g /\ Key[d] = k
    <2>1. CASE stats'[g][k] = stats[g][k]
        BY <1>3, <2>1, StatsStep DEF RunInv
    <2>2. CASE Sample(c) /\ g = Func[c] /\ k = Key[c]
        BY <2>2 DEF Sample, RunInv
    <2> QED
        BY <2>1, <2>2, StatsStep
<1> QED
    BY <1>1, <1>2, <1>3 DEF RunInv, StatsOf

LEMMA UntrainedStep ==
    ASSUME IInv, NEW c \in Calls, CallStep(c)
    PROVE  UntrainedInv'
BY StatsStep DEF IInv, UntrainedInv

LEMMA EstimateStep ==
    ASSUME IInv, NEW c \in Calls, CallStep(c)
    PROVE  EstimateFromRun' /\ ScalarsNeverEstimated'
<1> USE CallsAssumption DEF IInv, TypeOK
<1>0. \A d \in Calls : Func[d] \in Scalar => ~HasEstimate(d)'
    BY UntrainedStep DEF UntrainedInv, HasEstimate, StatsOf
<1>1. ran \subseteq ran'
    BY StatsStep
<1>2. CASE Ask(c)
    <2>1. \A d \in Calls \ {c} : estimate'[d] = estimate[d]
        BY <1>2 DEF Ask
    <2>2. ASSUME estimate'[c] = "some"
          PROVE  Func[c] \notin Scalar /\ \E d \in ran' \ {c} : Func[d] = Func[c] /\ Key[d] = Key[c]
        <3>1. HasEstimate(c) /\ pc[c] = "idle" /\ c \notin ran
            BY <1>2, <2>2 DEF Ask, RunInv
        <3>2. Func[c] \notin Scalar /\ stats[Func[c]][Key[c]].points > 0
            BY <3>1 DEF HasEstimate, StatsOf, UntrainedInv
        <3> QED
            BY <1>1, <3>1, <3>2 DEF RunInv
    <2> QED
        BY <1>0, <1>1, <2>1, <2>2 DEF EstimateFromRun, ScalarsNeverEstimated
<1>3. CASE ~Ask(c)
    <2>1. estimate' = estimate
        BY <1>3 DEF CallStep, AskThrows, CompileStep, TaskStep, Lookup, Compiled, CompilationThrows,
                    RunKernel, ResolveThrows, Sample, SampleThrows, LookupCrashes
    <2> QED
        BY <1>0, <1>1, <2>1 DEF EstimateFromRun, ScalarsNeverEstimated
<1> QED
    BY <1>2, <1>3

LEMMA InvStep == IInv /\ [Next]_vars => IInv'
<1> SUFFICES ASSUME IInv, [Next]_vars PROVE IInv'
    OBVIOUS
<1>1. CASE LibraryStep \/ UNCHANGED vars
    BY <1>1, QuietStep, InvQuiet DEF IInv
<1>2. CASE \E c \in Calls : CallStep(c)
    BY <1>2, TypeCallStep, CompileInvStep, RunInvStep, UntrainedStep, EstimateStep DEF IInv
<1> QED
    BY <1>1, <1>2 DEF Next, Terminated

LEMMA InvCorrect == Spec => []IInv
BY InvInit, InvStep, PTL DEF Spec

\* caching_cpu_comiler compiles no module twice.
THEOREM CompiledOnceCorrect == Spec => []CompiledOnce
<1>1. IInv => CompiledOnce
    BY DEF IInv, CompileInv
<1> QED
    BY InvCorrect, <1>1, PTL

\* Estimates rest on earlier runs of the kernel with the same arguments.
THEOREM EstimateFromRunCorrect == Spec => []EstimateFromRun
<1>1. IInv => EstimateFromRun
    BY DEF IInv
<1> QED
    BY InvCorrect, <1>1, PTL

\* regression_performance_model never has an estimate.
THEOREM ScalarsNeverEstimatedCorrect == Spec => []ScalarsNeverEstimated
<1>1. IInv => ScalarsNeverEstimated
    BY DEF IInv
<1> QED
    BY InvCorrect, <1>1, PTL

\* simple_statistical_performance_model forgets no call that is over.
THEOREM RunsAreRememberedCorrect == Spec => RunsAreRemembered
<1> DEFINE A == \A c, d \in Calls :
                   /\ pc[c] = "idle" /\ pc'[c] = "asked"
                   /\ pc[d] = "done" /\ Func[d] = Func[c] /\ Key[d] = Key[c] /\ Func[c] \notin Scalar
                   => estimate'[c] = "some"
<1>1. IInv /\ [Next]_vars => A
    <2> SUFFICES ASSUME IInv, [Next]_vars, NEW c \in Calls, NEW d \in Calls,
                        pc[c] = "idle", pc'[c] = "asked", pc[d] = "done",
                        Func[d] = Func[c], Key[d] = Key[c], Func[c] \notin Scalar
                 PROVE  estimate'[c] = "some"
        OBVIOUS
    <2> USE CallsAssumption DEF IInv, TypeOK
    <2>1. ~(LibraryStep \/ UNCHANGED vars)
        BY QuietStep DEF OtherVars
    <2>2. PICK b \in Calls : CallStep(b)
        BY <2>1 DEF Next, Terminated
    <2>3. Ask(c)
        BY <2>2 DEF CallStep, Ask, AskThrows, CompileStep, TaskStep, Lookup, Compiled, CompilationThrows,
                    RunKernel, ResolveThrows, Sample, SampleThrows, LookupCrashes
    <2>4. HasEstimate(c)
        BY DEF HasEstimate, RunInv, StatsOf
    <2> QED
        BY <2>3, <2>4 DEF Ask
<1>2. IInv /\ [Next]_vars => [A]_vars
    BY <1>1
<1> QED
    BY InvCorrect, <1>2, PTL DEF Spec, RunsAreRemembered
=============================================================================
