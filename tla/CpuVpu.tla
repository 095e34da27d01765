------------------------------- MODULE CpuVpu -------------------------------
(***************************************************************************)
(* A CPU VPU: the kernels it is asked to estimate and to execute, its      *)
(* cache of compiled modules, its performance models and the module        *)
(* library of the runtime it takes the code from.                          *)
(*                                                                         *)
(* A module is compiled under cache_mutex_, which is held across the       *)
(* look-up in the library and the compilation; an exception leaves no      *)
(* entry.  A kernel that has run is sampled before its future is set, so   *)
(* that a failure of the sampling fails a kernel whose results are         *)
(* written.  The performance models are entered under models_mutex_ alone, *)
(* one step here.                                                          *)
(*                                                                         *)
(* The library's index is not protected: a look-up that meets an add may   *)
(* miss a module that is there, or crash.                                  *)
(***************************************************************************)
EXTENDS Naturals, FiniteSets

CONSTANTS
    Calls,    \* the kernel calls the scheduler gives to the VPU
    Funcs,    \* the kernels
    Modules,  \* the modules
    Keys,     \* the identities of the (non-scalar) arguments of a call
    Func,     \* the kernel of a call
    Key,      \* the key of a call
    Module,   \* the module of a kernel
    Scalar,   \* the kernels with a scalar parameter
    Enough,   \* 10 in the code: data points before and between trainings
    None      \* no call

ASSUME CallsAssumption ==
    /\ Func \in [Calls -> Funcs]
    /\ Key \in [Calls -> Keys]
    /\ Module \in [Funcs -> Modules]
    /\ Scalar \subseteq Funcs
    /\ Enough \in Nat \ {0}
    /\ None \notin Calls

VARIABLES
    library,   \* module_index_
    adding,    \* the modules whose add is in progress
    cache,     \* compilation_cache_
    holder,    \* the call holding cache_mutex_
    compiled,  \* history: how often each module was compiled
    pc,        \* how far each call has come
    estimate,  \* the answer to try_estimate_execution_time
    ran,       \* history: the calls whose kernel has run
    models,    \* kernel_models_: the kernels with a performance model
    stats,     \* per kernel and key its accumulator or regression_analysis
    crashed

vars == <<library, adding, cache, holder, compiled, pc, estimate, ran, models, stats, crashed>>

libraryVars == <<library, adding>>
cacheVars == <<cache, holder, compiled>>
modelVars == <<models, stats>>

CallStates == {"idle", "asked", "compiling", "running", "sampling", "done", "failed"}

ModuleOf(c) == Module[Func[c]]
StatsOf(c) == stats[Func[c]][Key[c]]

-----------------------------------------------------------------------------
(***************************************************************************)
(* module_library_server                                                   *)
(***************************************************************************)

AddBegin(m) ==
    /\ ~crashed
    /\ m \notin library \cup adding
    /\ adding' = adding \cup {m}
    /\ UNCHANGED <<library, cacheVars, pc, estimate, ran, modelVars, crashed>>

AddEnd(m) ==
    /\ ~crashed
    /\ m \in adding
    /\ library' = library \cup {m}
    /\ adding' = adding \ {m}
    /\ UNCHANGED <<cacheVars, pc, estimate, ran, modelVars, crashed>>

\* A look-up may fail on a module it should find.
Racing == adding # {}

-----------------------------------------------------------------------------
(***************************************************************************)
(* Performance models                                                      *)
(***************************************************************************)

NoData == [points |-> 0, fresh |-> 0, trained |-> FALSE]

\* symbolic_regression::accuracy: none before the first update.
Accuracies(s) == IF s.trained THEN {"good", "fair", "poor"} ELSE {"none"}

\* Comparisons of a boost::optional with a duration: none exceeds nothing.
ExceedsMinimal(a) == a = "poor"
ExceedsTarget(a) == a \in {"fair", "poor"}

\* The data set grows by one; its window of 1000 points is larger than Enough.
Counted(s) == [points |-> s.points + 1, fresh |-> s.fresh + 1, trained |-> s.trained]

\* regression_analysis::update.
Update(s) == [points |-> s.points, fresh |-> 0, trained |-> TRUE]

\* Mutant: without an accuracy the model is trained.
AddDatapointTrains(s) ==
    LET t == Counted(s)
    IN  IF t.points < Enough THEN {t} ELSE {Update(t)}

\* regression_analysis::add_datapoint: the possible outcomes.
AddDatapoint(s) ==
    LET t == Counted(s)
    IN  IF t.points < Enough THEN {t}
        ELSE   {Update(t) : a \in {a \in Accuracies(t) : ExceedsMinimal(a)}}
          \cup {IF t.fresh >= Enough /\ ExceedsTarget(b) THEN Update(t) ELSE t :
                   a \in {a \in Accuracies(t) : ~ExceedsMinimal(a)}, b \in Accuracies(t)}

\* What a sample makes of the data of a call's kernel and key.
Sampled(c) ==
    IF Func[c] \in Scalar THEN AddDatapoint(StatsOf(c))
    ELSE {Counted(StatsOf(c))}

\* Mutant: the estimate of a kernel for arguments of any key.
HasEstimateOfAnyKey(c) ==
    /\ Func[c] \in models \ Scalar
    /\ \E k \in Keys : stats[Func[c]][k].points > 0

\* simple_statistical_performance_model and regression_performance_model.
HasEstimate(c) ==
    /\ Func[c] \in models
    /\ IF Func[c] \in Scalar THEN StatsOf(c).trained ELSE StatsOf(c).points > 0

\* cpu_vpu::try_estimate_execution_time, asked by the scheduler for a call of a
\* client whose add has returned.
Ask(c) ==
    /\ ~crashed
    /\ pc[c] = "idle"
    /\ ModuleOf(c) \in library
    /\ estimate' = [estimate EXCEPT ![c] = IF HasEstimate(c) THEN "some" ELSE "none"]
    /\ pc' = [pc EXCEPT ![c] = "asked"]
    /\ UNCHANGED <<libraryVars, cacheVars, ran, modelVars, crashed>>

\* The regression model cannot resolve the scalar arguments of a known key; the
\* scheduler passes the exception on.
AskThrows(c) ==
    /\ ~crashed
    /\ pc[c] = "idle"
    /\ ModuleOf(c) \in library
    /\ Func[c] \in Scalar \cap models
    /\ StatsOf(c).points > 0
    /\ pc' = [pc EXCEPT ![c] = "failed"]
    /\ UNCHANGED <<libraryVars, cacheVars, estimate, ran, modelVars, crashed>>

-----------------------------------------------------------------------------
(***************************************************************************)
(* caching_cpu_comiler::compile                                            *)
(***************************************************************************)

\* Mutant: the mutex is given up during the compilation.
LookupUnlocks(c) ==
    /\ ~crashed
    /\ pc[c] = "asked"
    /\ pc' = [pc EXCEPT ![c] = IF ModuleOf(c) \in cache THEN "running" ELSE "compiling"]
    /\ UNCHANGED <<libraryVars, cacheVars, estimate, ran, modelVars, crashed>>

\* The mutex is free; a module in the cache is used at once.
Lookup(c) ==
    /\ ~crashed
    /\ pc[c] = "asked"
    /\ holder = None
    /\ \/ /\ ModuleOf(c) \in cache
          /\ pc' = [pc EXCEPT ![c] = "running"]
          /\ UNCHANGED holder
       \/ /\ ModuleOf(c) \notin cache
          /\ pc' = [pc EXCEPT ![c] = "compiling"]
          /\ holder' = c
    /\ UNCHANGED <<libraryVars, cache, compiled, estimate, ran, modelVars, crashed>>

Compiled(c) ==
    /\ ~crashed
    /\ pc[c] = "compiling"
    /\ ModuleOf(c) \in library
    /\ cache' = cache \cup {ModuleOf(c)}
    /\ compiled' = [compiled EXCEPT ![ModuleOf(c)] = @ + 1]
    /\ holder' = None
    /\ pc' = [pc EXCEPT ![c] = "running"]
    /\ UNCHANGED <<libraryVars, estimate, ran, modelVars, crashed>>

\* Mutant: an exception leaves the mutex locked.
CompilationThrowsLocked(c) ==
    /\ ~crashed
    /\ pc[c] = "compiling"
    /\ pc' = [pc EXCEPT ![c] = "failed"]
    /\ UNCHANGED <<libraryVars, cacheVars, estimate, ran, modelVars, crashed>>

\* The look-up or the compiler throws.
CompilationThrows(c) ==
    /\ ~crashed
    /\ pc[c] = "compiling"
    /\ holder' = None
    /\ pc' = [pc EXCEPT ![c] = "failed"]
    /\ UNCHANGED <<libraryVars, cache, compiled, estimate, ran, modelVars, crashed>>

-----------------------------------------------------------------------------
(***************************************************************************)
(* The task of cpu_vpu::execute                                            *)
(***************************************************************************)

RunKernel(c) ==
    /\ ~crashed
    /\ pc[c] = "running"
    /\ ran' = ran \cup {c}
    /\ pc' = [pc EXCEPT ![c] = "sampling"]
    /\ UNCHANGED <<libraryVars, cacheVars, estimate, modelVars, crashed>>

\* A page of an argument or a result cannot be resolved.
ResolveThrows(c) ==
    /\ ~crashed
    /\ pc[c] = "running"
    /\ pc' = [pc EXCEPT ![c] = "failed"]
    /\ UNCHANGED <<libraryVars, cacheVars, estimate, ran, modelVars, crashed>>

\* Mutant: every sample makes a new model of the kernel.
SampleAnew(c) ==
    /\ ~crashed
    /\ pc[c] = "sampling"
    /\ models' = models \cup {Func[c]}
    /\ \E s \in Sampled(c) :
          stats' = [stats EXCEPT ![Func[c]] = [k \in Keys |-> IF k = Key[c] THEN s ELSE NoData]]
    /\ pc' = [pc EXCEPT ![c] = "done"]
    /\ UNCHANGED <<libraryVars, cacheVars, estimate, ran, crashed>>

\* unified_performance_model::sample_execution_time makes a model if there is none,
\* for which it looks the module up again.
Sample(c) ==
    /\ ~crashed
    /\ pc[c] = "sampling"
    /\ models' = models \cup {Func[c]}
    /\ \E s \in Sampled(c) : stats' = [stats EXCEPT ![Func[c]][Key[c]] = s]
    /\ pc' = [pc EXCEPT ![c] = "done"]
    /\ UNCHANGED <<libraryVars, cacheVars, estimate, ran, crashed>>

\* The look-up misses the module, or the regression model, once there, cannot
\* resolve the scalar arguments.
SampleThrows(c) ==
    /\ ~crashed
    /\ pc[c] = "sampling"
    /\ \/ Racing /\ Func[c] \notin models /\ UNCHANGED models
       \/ Func[c] \in Scalar /\ models' = models \cup {Func[c]}
    /\ pc' = [pc EXCEPT ![c] = "failed"]
    /\ UNCHANGED <<libraryVars, cacheVars, estimate, ran, stats, crashed>>

\* A look-up of the compiler or of the performance model meets a rehash of the index.
LookupCrashes(c) ==
    /\ ~crashed
    /\ Racing
    /\ pc[c] = "compiling" \/ (pc[c] = "sampling" /\ Func[c] \notin models)
    /\ crashed' = TRUE
    /\ UNCHANGED <<libraryVars, cacheVars, pc, estimate, ran, modelVars>>

-----------------------------------------------------------------------------

Terminated ==
    /\ crashed \/ (adding = {} /\ library = Modules /\ \A c \in Calls : pc[c] \in {"done", "failed"})
    /\ UNCHANGED vars

Init ==
    /\ library = {} /\ adding = {}
    /\ cache = {} /\ holder = None
    /\ compiled = [m \in Modules |-> 0]
    /\ pc = [c \in Calls |-> "idle"]
    /\ estimate = [c \in Calls |-> "unasked"]
    /\ ran = {}
    /\ models = {}
    /\ stats = [f \in Funcs |-> [k \in Keys |-> NoData]]
    /\ crashed = FALSE

CompileStep(c) == Lookup(c) \/ Compiled(c) \/ CompilationThrows(c)
TaskStep(c) == RunKernel(c) \/ ResolveThrows(c) \/ Sample(c) \/ SampleThrows(c)

CallStep(c) == Ask(c) \/ AskThrows(c) \/ CompileStep(c) \/ TaskStep(c) \/ LookupCrashes(c)

LibraryStep == \E m \in Modules : AddBegin(m) \/ AddEnd(m)

Next == LibraryStep \/ (\E c \in Calls : CallStep(c)) \/ Terminated

Spec == Init /\ [][Next]_vars

\* HPX runs every runnable thread; compilations, kernels and samplings end.
Fairness == \A c \in Calls : WF_vars(CompileStep(c)) /\ WF_vars(TaskStep(c))

FairSpec == Spec /\ Fairness

-----------------------------------------------------------------------------
(***************************************************************************)
(* Properties                                                              *)
(***************************************************************************)

Data == [points : Nat, fresh : Nat, trained : BOOLEAN]

\* Types; only the call that compiles holds the mutex.
TypeOK ==
    /\ library \subseteq Modules /\ adding \subseteq Modules
    /\ cache \subseteq Modules
    /\ holder \in Calls \cup {None}
    /\ \A c \in Calls : pc[c] = "compiling" <=> holder = c
    /\ compiled \in [Modules -> Nat]
    /\ pc \in [Calls -> CallStates]
    /\ estimate \in [Calls -> {"unasked", "none", "some"}]
    /\ ran \subseteq Calls
    /\ models \subseteq Funcs
    /\ stats \in [Funcs -> [Keys -> Data]]
    /\ crashed \in BOOLEAN

\* A module is compiled once, however many calls need it at the same time and
\* however many compilations of it failed before.
CompiledOnce == \A m \in Modules : compiled[m] = IF m \in cache THEN 1 ELSE 0

\* An estimate rests on an earlier run of the same kernel with the same arguments.
EstimateFromRun ==
    \A c \in Calls : estimate[c] = "some" =>
        \E d \in ran \ {c} : Func[d] = Func[c] /\ Key[d] = Key[c]

\* A call of a kernel with a scalar parameter has and would get no estimate: the
\* regression model is trained only if its accuracy is poor, and it has none before
\* it is trained.
ScalarsNeverEstimated ==
    \A c \in Calls : Func[c] \in Scalar => estimate[c] # "some" /\ ~HasEstimate(c)

\* Once a call of a kernel without scalar parameters is over, every call of the
\* kernel with the same arguments that is asked for later has an estimate.
RunsAreRemembered ==
    [][\A c, d \in Calls :
          /\ pc[c] = "idle" /\ pc'[c] = "asked"
          /\ pc[d] = "done" /\ Func[d] = Func[c] /\ Key[d] = Key[c] /\ Func[c] \notin Scalar
          => estimate'[c] = "some"]_vars

\* Every call that reaches the VPU is over at some point.
EveryCallReturns ==
    \A c \in Calls : (pc[c] = "asked") ~> (pc[c] \in {"done", "failed"} \/ crashed)

-----------------------------------------------------------------------------
(***************************************************************************)
(* The inductive invariant                                                 *)
(***************************************************************************)

\* A call compiles only what is not in the cache.
CompileInv ==
    /\ CompiledOnce
    /\ \A c \in Calls : pc[c] = "compiling" => ModuleOf(c) \notin cache

\* The models hold the runs that were sampled, all of them and no others.
RunInv ==
    /\ \A c \in Calls : pc[c] \in {"idle", "asked", "compiling", "running"} => c \notin ran
    /\ \A c \in Calls : pc[c] = "sampling" => c \in ran
    /\ \A c \in Calls : pc[c] = "idle" => estimate[c] = "unasked"
    /\ \A c \in Calls : pc[c] = "done" => Func[c] \in models /\ StatsOf(c).points > 0
    /\ \A g \in Funcs, k \in Keys : stats[g][k].points > 0 =>
          \E d \in ran : Func[d] = g /\ Key[d] = k

\* No regression model is ever trained.
UntrainedInv == \A g \in Funcs, k \in Keys : ~stats[g][k].trained

IInv == TypeOK /\ CompileInv /\ RunInv /\ UntrainedInv /\ EstimateFromRun /\ ScalarsNeverEstimated
=============================================================================
