# A TLA+ model of the Qubus runtime

Qubus is a parallel virtual machine for tensor programs, written in C++ on top of
HPX. A client defines kernels in an embedded tensor language (QTL), creates tensors,
calls kernels on them and looks at the results through views. The runtime turns a
kernel into a module, orders the accesses of kernels and views to each object,
chooses a virtual processing unit (VPU) for each kernel and brings the objects to
the node the kernel runs on. Paths in this text are relative to the directory `qubus`
of the repository; `util/` is the directory next to it.

One group of modules models the parts of the runtime that run concurrently or fail
partially: access tokens, scheduling, memory, kernel definition and execution on a
CPU VPU. TLC checks them on small instances, TLAPS proves their main safety
properties for all instances. A second group models the way of a kernel from the
expressions its author writes to the machine's instructions: the passes of QTL, the
intermediate representation and the text in which it travels, type inference and the
JIT compiler, each step checked against what the kernel means. A third group models
two libraries below both: the hash table of `util` and the wrappers of isl and CUDA
handles.

- [Inventory](#inventory)
- [Plan](#plan)
- [Modules and the code they model](#modules-and-the-code-they-model)
- [Runs](#runs)
- [Fairness](#fairness)
- [Proofs](#proofs)
- [What the models leave out](#what-the-models-leave-out)

## Inventory

### Parts of the system

| Part | Source | State | Operations |
|---|---|---|---|
| dataflow graph | `src/dataflow.cpp` | `wavefront_map_`: the future of the last token of every object; an event in every token | `schedule_read`, `schedule_modification`, `finalize`; the destructor of a token |
| runtime server | `src/runtime.cpp` | the graph, the global VPU, the local runtimes, the module library, the name `/qubus/runtime` | `execute`, `acquire_*_access`, `shutdown`, the global `init`, `finalize`, `get_runtime` |
| global VPU, uniform fill scheduler | `src/aggregate_vpu.cpp`, `src/scheduling/uniform_fill_scheduler.cpp` | member VPUs; a priority queue of members with the work assigned to each; a mutex | `add_member_vpu`, `execute`, `schedule`, `add_resource` |
| address spaces | `src/local_address_space.cpp`, `src/evicting_allocator.cpp` | per node the table from objects to futures of pages; reference counts of pages | `allocate_page`, `register_page`, `resolve_object`, `evict_objects`, the page fault handlers |
| objects and factories | `src/object.cpp`, `src/object_instance.cpp`, `src/object_factory.cpp`, `src/local_object_factory.cpp` | the handle of the primary page | `create_scalar`, `create_array`, `finalize`, `primary_instance`, `copy` |
| host views | `include/qubus/host_object_views.hpp`, `include/qubus/get_view.hpp` | a token and a page | `get_view`, destruction |
| local runtime | `src/local_runtime.cpp` | the host address space, the VPUs and the service pool of a locality | `resolve_page_fault`; loading of backends, start and shutdown |
| CPU backend | `src/backends/CPU/cpu_backend.cpp` | compile cache and its mutex | `compile`, `execute`, `try_estimate_execution_time` |
| performance models | `src/performance_models/*` | per kernel a model, per key of arguments an accumulator or a regression | `sample_execution_time`, `try_estimate_execution_time`, training |
| module library | `src/module_library.cpp` | the modules by name | `add`, `lookup` |
| QTL kernels | `src/qtl/kernel.cpp`, `src/qtl/task_generator.cpp` | `current_kernel`, the static counter naming modules | definition and call of a kernel |
| tensor language (QTL) | `src/qtl/*_pass.cpp`, `src/qtl/sparse_patterns.cpp`, `src/qtl/lower_*.cpp` | the statements of a kernel, the objects extracted so far, the number of the next variable | seven passes per statement, `wrap_code_in_task`, the argument maps |
| intermediate representation | `src/IR`, `include/qubus/pattern` | expression trees; the symbol table of a parser | constructors, patterns and substitution, printing, parsing, type inference, constant folding |
| JIT compiler | `src/jit`, `src/make_implicit_conversions_explicit.cpp`, `src/backends/CPU/cpu_compiler.cpp` | symbol table, the module under construction | `compile`, one function per kind of expression |
| analyses, pass manager | `src/*_analysis.cpp`, `src/pass_manager.cpp` | axiom scopes, accesses; cached results and their dependencies | `get_accesses`, `query_accesses_for_location`, `get_analysis`, `invalidate` |
| isl and CUDA wrappers | `src/isl`, `src/cuda/core.cpp` | one native handle each | about 200 calls, construction, copy, move, assignment, destruction |
| hash table | `util/include/qubus/util/detail/dense_hash_table.hpp` | the buffer of entries, its sizes, the hash policy | `emplace`, `operator[]`, `erase`, `clear`, `rehash`, `reserve`, `shrink_to_fit`, construction, copy, move, swap, iteration |
| loop optimizer, symbolic regression, allocators, CUDA backend, logging, other utilities | `src/loop_optimizer.cpp`, `src/affine_constraints.cpp`, `src/performance_models/symbolic_regression.cpp`, `src/backends/CUDA`, `util/` | not modelled | |

### How the parts interact

A client thread constructs a kernel: the user's function runs, every statement it
evaluates is appended to the kernel found in `current_kernel`, each is rewritten by
the passes, and the result is wrapped into a function, a module and added to the
library of the runtime. A locality that looks a module up gets its text and parses it. A call of the kernel
is an HPX action on the runtime server. It schedules one token per argument and
result and returns; when all tokens are ready, a continuation on the service pool
asks the global VPU to execute the kernel. The scheduler pops the member with the
least work, asks it (over the network) for an estimate, adds the estimate to the
member's work, pushes it back and forwards the kernel to it. The CPU VPU of that
node compiles the module if it is not in its cache, resolves the pages of all
objects, runs the kernel and gives the measured time to its performance model.
Resolving a page that is not in the node's table is a page fault: the object is
asked for its primary instance, a page is allocated, perhaps after an eviction, and
the instance copied into it. Views take the same path with one token and one page,
but resolve the page before they have waited for the token. `finalize` unregisters
the runtime and waits for the last token of every object.

### What is hard

- The HPX actions of one component run on any thread and interleave; only some of
  the state is protected by a mutex (`wavefront_map_`, `module_index_`,
  `current_kernel` and the module counter are not).
- Locks are held across remote calls (scheduler, compile cache) or given up in the
  middle of an operation (`resolve_object`).
- Tokens, pages and table entries are freed by the destructors of whatever still
  refers to them, also after exceptions.
- Every remote call may throw, at points where the state is half updated.
- Shutdown has to wait for work whose only trace is a chain of futures.
- Objects are copied between nodes.
- The passes rely on the normal forms that earlier passes leave, and nothing but the
  numbers a kernel computes tells when one of them is missed.
- A kernel is known in four forms with four conventions (statements, function, text,
  instructions); parameters, indices and strides are matched by order or by name.
- The hash table moves elements on insertion and on erasure, and a displacement can
  fail half-way.
- A wrapped call has to say of every handle whether the library keeps or takes it.

### What makes each part correct

- Dataflow graph: accesses to an object exclude each other and take place in the
  order in which they were scheduled; everything scheduled happens; shutdown waits
  for it. In short, the tokens of each object are a first-come first-served queue.
- Scheduler: the work of the members is balanced and counted without overflow; no
  member is lost; every kernel is dispatched.
- Memory: a live object is never lost; users of one node see one page; users of all
  nodes see the last write; every resolve returns.
- Kernel definition: a kernel consists of its own statements and has a name of its
  own.
- CPU VPU: a module is compiled once; a failure blocks nobody; estimates come from
  runs of the same kernel on the same arguments and exist when there was one.

- Translation: every pass keeps what the statements compute; the function declares all
  it uses; arguments reach the parameters that stand for them; another locality reads
  the same function.
- Compilation: a function that is typed compiles, to valid instructions that compute
  what it means as long as its integers do not wrap, on the layout of the views; what
  the analyses promise holds.
- Hash table: it is a finite map, and an element is only lost when it is erased.
- Wrappers: one reference per wrapper, whatever is called in whatever order.

`PROJECT.json` lists under `hazards` the lines where these can go wrong, with the
properties that would notice.

## Plan

Done, in this order:

1. `Dataflow`, with `AccessQueue` and `TokenLock` as the abstract specifications it
   implements, and `DataflowProofs` and `DataflowWaitProofs`.
2. `UniformFillScheduler` and its proofs.
3. `AddressSpace`, with `ObjectMemory` and `TokenLock` as the abstract specifications it
   implements, and its proofs.
4. `KernelDefinition` and its proofs.
5. `CpuVpu` and its proofs.
6. `DenseHashTable`, with `AssociativeMap` as the abstract specification it implements,
   and `DenseHashTableProofs`.
7. `NativeHandles`, instantiated with the signatures of all wrappers, and its proof.
8. `Translation`, on `Qir`, `QirPatterns`, `QtlPasses`, `SparseTensor` and `QirText`,
   with `QirSemantics` as what statements mean.
9. `Compilation`, on `TypeInference` and `Jit`.

Left:

10. A module that composes the life of one kernel call: definition, token, scheduling,
    resolution, execution, failure, release. The interfaces are there already: the
    `Run`, `Finish` and `Fail` of `Dataflow` stand for a call of
    `UniformFillScheduler`, whose `Dispatch` stands for a call of `CpuVpu`, whose
    `RunKernel` and `ResolveThrows` stand for users of `AddressSpace`.
11. Start and shutdown of the localities: `init_local_runtime`, the loading of
    backends, the order in which `shutdown` frees what the continuations of kernels
    and page faults still use.
12. The analyses of schedules and value ranges and the rewriting of loops on top of
    them, the caches of `util/` and the caching in `pass_manager`.

## Modules and the code they model

`PROJECT.json` maps every definition to its lines. The state is given here by the
name of the variable and of the member it stands for.

### AccessQueue

The promise of the dataflow graph: per object a `queue` of tokens, which are
`granted` and then `released`; a token is granted only when all tokens before it are
released. `Exclusive` and `FirstComeFirstServed` are what a holder of a token may rely
on; the theorem `QueuePromise` derives them from the specification.

### TokenLock

What the graph and the users of objects have to agree on: an object is held by one
user at a time, and a user that has left, or failed, does not come back. In `Dataflow`
the users are tokens, granted or released; in `AddressSpace` they are the accesses of
kernels and views, which hold the token or are done. Both implement it, so that the
tokens of `AddressSpace`, which are not ordered by a queue, include all behaviours of
those of `Dataflow`.

### Dataflow

`wavefront` is `wavefront_map_`; `pred` is the event a token's continuation is
attached to; `tok` the state of a token; `phase`, `slot` and `search` how far a
request (a call of `execute` or of `acquire_*_access`) has come; `stage`, `visited`
and `awaited` how far `shutdown` has; `order` is a history variable.
`HoldsTokens` (whoever runs has all its tokens) and `RepeatsHang` (what becomes of a
kernel that names an object twice) are properties that are proved and that no run
checks.

`schedule_modification` and `schedule_read` have the same body and are two steps
each: `Lookup` searches the map and attaches the continuation, `Publish` assigns or
emplaces the new future. `Grant` is the event of the older token being set,
`Run` the continuation of `when_all` starting the kernel, `Finish` and `Fail` its two
ends, `OpenView` and `CloseView` a view, `ReleaseToken` the destructor of a token,
which may run at any time after its owner is done. `Finalize` unregisters the
runtime, `FinalizeAwait` and `FinalizeGet` are the loop of `dataflow_graph::finalize`,
`Teardown` the rest of `shutdown`.

Inputs: `Accesses` gives the objects of each request, `Caller` its client thread. A
thread waits for `execute` to return, which is when everything is scheduled, and for
`acquire_*_access`, which is when the token is ready. The view of a scalar waits for
that itself (`host_object_views.hpp:73`); the view of an array comes as a future
(line 196), which a client may keep while it goes on. Its next call then runs beside
the pending one, as if another thread had made it, which is what the run
`dataflow_racing` and the theorems without `SerialCallers` are about. `SelfBlocking` says whether a
client may ask for a view, or call `finalize`, while a view it holds itself keeps it
from getting there; that is a deadlock of the client's own making.

### UniformFillScheduler

`queued` and `work` are the priority queue `workloads_`, `holder` is
`scheduling_mutex_`, `call` and `target` are the progress of each `execute`. Members
are added (`AddMember`) before the constructor of the runtime returns (`Boot`). A
call takes the mutex and pops a least loaded member (`Pick`), which stays off the
queue during the remote estimate, with its three outcomes `Estimated`,
`NotEstimated` and `EstimateThrows`. `Charge` is the addition with the overflow
check: if the sum would exceed `MaxTicks`, the popped member restarts at zero and
the work it had so far is subtracted from everybody else. `PickEmpty` is `top()` of
an empty queue, which is undefined.

`ChargesThePickedOnly`, an action property that is proved and that no run checks, says
that whatever a step does to the numbers, also at the integer limit, only the member
that was picked moves relative to the others.

Estimates are at most `MaxRuntime`, a parameter; the assumption is only that it is
not above `MaxTicks`.

### AddressSpace

`entry` is `entry_table_` of every node, from objects to futures of pages. A page,
and its future, is named after the object whose primary page it is or after the user
(an access by a kernel or a view) whose page fault made it. `life` tells whether an
object exists and has data; `instance` are the page faults holding a handle of the
primary page; `holder` the token of each object; `content` the version a page holds;
`latest` and `evicted` are history variables; `crashed` says that a null page was
dereferenced.

`Resolve` is the first critical section of `resolve_object` with its three early
returns, `PageFault` and `PageFaultThrows` the handler, called without the lock,
`Install` the second critical section, `Deliver` the continuation. `FetchInstance`,
`AllocatePage`, `CopyDone` and `PageFaultFails` are the continuations of
`resolve_page_fault`. `Unique`, `InUse` and `HasMemory` are the reference counts;
`Evict` drops one entry nobody else refers to when a node is `Full`, `AllocateNull`
is an allocation that finds nothing to evict. `Finalize` is the destructor of any
copy of a tensor. Kernels resolve under their token, views may resolve before.

### ObjectMemory

What the memory of the runtime promises to kernels and views, without nodes, pages,
tables and page faults: one of them at a time has access to an object (`Open`,
`Close`), finds a version of its value and may leave a new one. Of an object whose
users are all at its home (`UsedAtHome`) they find the last version unless it is lost,
and it is lost only after its finalization, by eviction (`Lose`). Of other objects they
find some earlier version, or no value. In `AddressSpace` a user has access when it has
resolved the object, has its token and is not over (`Accessing`), and finds what its
page holds.

### KernelDefinition

`current` is `current_kernel`, `code` the statements collected by each kernel, each
represented by the kernel whose function it is from, `counter` the static counter of
`wrap_code_in_task`, `library` the modules. `Construct`, `AddCode`,
`DefinitionThrows` and `Constructed` are `this_kernel::construct` and `add_code`;
`ReadCounter` and `WriteCounter` the two halves of `counter++`; `AddModule` the
library's `add` with its refusal of duplicates. The asserts are compiled out, as in
a release build: a statement without a current kernel dereferences a null pointer, a
statement for a kernel whose constructor has thrown writes to freed memory, with or
without an effect.

### CpuVpu

`cache` and `holder` are `compilation_cache_` and `cache_mutex_`; `library` and
`adding` the module library with the adds in progress; `models` and `stats` the
performance models, reduced to whether there is data and whether a regression was
trained; `compiled` and `ran` are history variables. `Ask` is the scheduler's
question for an estimate, `Lookup`, `Compiled` and `CompilationThrows` are
`compile`, `RunKernel`, `ResolveThrows`, `Sample` and `SampleThrows` the task of
`execute`. A look-up of a module that meets an add in progress is a data race: it
finds the module, misses it or crashes.

The accuracy of a regression is `none`, `good`, `fair` or `poor`, split at the two
thresholds of `add_datapoint`; what a training makes of it is left open.

### AssociativeMap and DenseHashTable

`AssociativeMap` is the promise: a table is a partial function, and an operation
inserts a pair with a new key, replaces a value, removes pairs, or constructs, copies,
moves or swaps whole tables.

`tab` is the members of each table: `entries` the buffer with its special last entry,
`slots` is `num_slots_minus_one_`, `prime` the index the prime policy committed,
`lookups` is `max_lookups_`, `load` is `max_load_factor_` as a fraction, `size` is
`num_elements_`. `policy` chooses between the two hash policies. A position holds
`dist`, the distance from the slot the hash names, and the element.

The loops that move elements are taken one slot at a time, so that the properties
also hold in the middle of them. `on` is the table whose member function is running
and `phase` what it does: `"shift"` is the loop of displacements in `emplace_new_key`
(`PutDown`, `Displace`, `Pass`, `GiveUp`) with the element in `to_insert` as `carry`;
`"close"` is the loop of both `erase` functions (`CloseStep`) with the slot it has
reached and the width of the gap in `gap`; `"emplace"` are the loops of `rehash`,
`insert` and assignment, with the elements not yet emplaced in `todo`. Searching an
element is one step, `ProbeLength` says where it ends. When the displacement reaches
the probe limit, `GiveUp` swaps as the code does and grows, and so puts the new
element and all elements of the table into `todo`. The code emplaces in the order of
the slots, nested where a rehash grows again; the model emplaces in any order, which
includes that one. What is proved and checked does not depend on the order.

The member `entries_` has no initializer (line 954), and of all constructors only the
default one sets it. What the others do depends on the value that is in the memory by
chance, and the model has all that can come of it. The constructors that take a bucket
count, a range, an initializer list or another table to copy (`ConstructBy`) call `rehash`
first. If it is asked for no bucket, it gives back the buffer that `entries_` points to,
which does no harm when the pointer happens to be null, and the table is in order; if the
request is rounded to one bucket, which a new table has already by its count, it returns
and leaves the pointer as it is; otherwise it moves the elements it finds behind the
pointer. A move (`ConstructMove`) swaps the pointers: the new table is in order, and the
one moved from is left with the pointer that has no value. Tables with such a pointer are
`wild`; `entries` is a stand-in for them, that of an empty table. They can be swapped and
moved from, which hands the pointer on (`SwapsPointers`), and given a load factor; whatever
else is done with them, their destruction included, reads slots behind the pointer.
Where that happens, or a constructor does so, the execution goes to the phase
`"undefined"` and stays there. All that is said below of tables ends there:
a program can rely on it if it constructs all its tables by default, as the entry table
of the address spaces and the tests do, and moves by assignment. `Construct` and
`ConstructFrom` construct a table in the place of one that is destroyed. Allocations and
copies of elements do not fail in the model, so the handler in the copy constructor
(lines 440-447) is not reached.

Programs do not pass an empty range to `erase(first, last)` (the code would move the
element at the range onto itself and then destroy it, lines 841-857), nor assign a
table to itself.

### IslOperations, IslClasses, CudaOperations, IslLibrary and NativeHandles

A wrapper is a `slot` with a class and a handle; `refs` are the references the library
counts to each of its objects. What the code does with each handle is data.
`IslOperations` has one record per signature of the isl wrappers: the class it is a
member of, the modes in which it passes its handles (`native`: as it is, `copy`:
through `isl_x_copy`, `release`: the handle of a by-value parameter, `update`: the own
handle, replaced by the result), the class of its result, and in `calls` the functions
of isl it passes them to. `IslClasses` says what the special members of each class do,
and `CudaOperations` has both for the CUDA wrappers.

The libraries are external. `IslLibrary` lists, function by function, the parameters
that isl only reads (`__isl_keep`) or the driver borrows; of all others isl takes one
reference. Nothing in the wrappers' tables says which is which, so a forgotten
copy, a copy too many and a by-value handle given to a function that only reads are
all states of the model: a call makes the references of `Made`, from the modes, and
loses those of `Taken`, from the function called.

`NativeHandles` gives the records their meaning: `Call` is a wrapped call with lvalues
and rvalues as arguments; `CopyConstruct`, `MoveConstruct`, `CopyAssign`, `MoveAssign`
and `Destroy` are the special members. The object a call makes may have the address of
one that was freed before, or by the call.

Several special members cannot count right, and no caller in `src/` uses them in the way
that shows it; they are actions as well, and put the objects they touch into
`miscounted`:

- `ShallowAssign`: the assignment operators that the compiler generates for classes
  with a destructor of their own (`id`, `value`, `constraint`, `local_space`, `schedule_constraints`,
  `multi_union_pw_affine_expr`), and the defaulted one of `union_flow`;
- `ShallowMove`: the defaulted move constructor of `union_flow`;
- `CopyOfFreed`, `SelfMove`: self-assignment of the classes that free their handle
  before they copy or release the other's;
- `Overwrite`: the move assignment of `context_guard` (`src/cuda/core.cpp:303`), which
  forgets the active context;
- `ConstructorThrows`: the failing second driver call of the constructors of `context`
  (`src/cuda/core.cpp:193`) and `event` (line 397).

The wrappers of a miscounted object go on being used like all others, until a wrapper
of a freed object exists: then the behaviour is undefined (`Undefined`) and nothing
more is said of it. An object whose address is used again for a new one is no longer
miscounted.

Left out: `compute_flow` (`src/isl/flow.cpp:103`), the only function with four results,
what the callbacks of `ast_builder` and `stream` do, wrappers that are used after they
were moved from, and calls that pass one wrapper both by move and otherwise.

### Qir, QirPatterns and QtlPasses

`Qir` is the expressions: a record of tag, name, number, type, declarations and
subexpressions for every class of `src/IR` and `src/qtl/IR`, with the constructors and
`substitute_subexpressions`. `QirPatterns` is the pattern language: a pattern matches
an expression in an environment of variables, `match` takes the first case that
matches, `substitute` and `for_each` go through the tree in the order of the code.
`QtlPasses` has one operator per pass, with the patterns of the code.

### QirSemantics and SparseTensor

What the statements mean, independent of the passes: `Promise` of a statement of the
tensor language, by the definition of sum, delta, slices and indices, and `Exec` of
its loops. Values are integers, or undefined for what was never written. A sparse
tensor has the dense matrix it stands for and the blocks that its constructor stores
(`SparseTensor`, from `sparse_tensor.hpp` and `assembly_tensor.hpp`).

### QirText

`print` is the printer, from expressions to tokens, with its precedence levels;
`parse_qir` is the grammar and the symbol table of the reader, with the names it
refuses. Every token is a member of a small set; spelling matters only where the
reader can take a name for a keyword.

### Translation

`kernel` is the kernel that is defined; `computations`, `at` and `pass` say which
statement is in which form; `parameter_map` is the map from extracted objects to
variables, `next` numbers new variables, `entry` is the function of the module,
`argument_map` the two argument maps, `remote` what another locality has parsed. There
is one action per line of `translate_kernel`: the seven passes for each statement in
turn, `WrapCodeInTask` with the variable access analysis, `MapArguments`, and
`Transport`, the printing and parsing that `module::save` and `load` do.

`PassesKeepMeaning` compares, in every state, what the objects contain after the
statements in their current form with what the kernel promises. The statements it
leaves out (`Supported`) are those the passes get wrong: a target that the right-hand
side reads elsewhere or sums over (`InPlace`: it is zeroed or overwritten on the way),
and a sparse tensor that is one of several terms or factors, has one index twice, or
is used outside of a sum (`SparseMisuse`: `src/qtl/sparse_patterns.cpp` drops
everything around the contraction). `EntryIsClosed` leaves out sums below other
operators (`NestedSum`), which are never lowered.
`TextCarriesTheFunction` has two parts: `ArrivesUnchanged` and `RefusedForItsNames`
name what the text form cannot carry: `(a - b) - c` is printed without its brackets,
and all tensor parameters are called `tensor` (`include/qubus/qtl/ast.hpp:358`), so a
kernel with two of them is refused.

### TypeInference, Jit and Compilation

`TypeInference` is `typeof_`, constant folding, the pass that makes conversions
explicit, and the axioms of loop bodies and branches. `Jit` is `compile`: it turns an
expression into a tree of instructions, each with the type LLVM gives its value, or
fails in one of two ways: with an exception, or with the end of the process where
`map_qubus_type` looks up a type that `hash<type>`, which is `noexcept`, has no case
for (`src/IR/type.cpp:165`: truth values). `WellFormed` says what LLVM's verifier
demands of operand types (external).

In `Compilation`, `stage` says what has been done with the `program`, `body` is its
function in the current form, `code` the instructions, `memory` the words of every
object in the layout of the host's views. `MakeConversionsExplicit`, `CompileFunction`
and `Execute` are the way through `cpu_compiler`; `FoldConstants` is the side way of
the analyses. `Eval` and `Run` say what the instructions do with the memory, `Value`
and `Exec` what the program means, on arrays as functions. Real numbers are counted in
sixths so that a missing conversion changes the result.

Integer sums, differences and products carry the promise that they wrap neither as
unsigned nor as signed numbers (`src/jit/operators.cpp:106`, `:149` and `:192`, the
addresses of elements and the step of a loop too; only the sum of a `plus_assign`
carries none). `KeepsPromise` is that promise, for integers of 12 bits. A broken one
makes the value `Poison`, and so everything that is computed from it; an access through
a poisoned address, a division by poison and a branch on it are undefined, and the
execution ends in the stage `undefined`. Negative numbers are large unsigned ones, so
that `2 - 3`, `(-5) * 2` and a loop from -1 over 0 are poison. `ComputesTheProgram`
therefore says that an element holds what the program means or poison, and that there
is neither poison nor undefined execution unless the program itself has a sum,
difference, product or loop step that wraps (`wrapped` in `Meaning`, which looks at the
program, not at the code).

`Faithful` names what the code computes differently altogether: an assignment to a
narrower type is lost, `div_floor` of negative numbers rounds the wrong way, truth
values are ordered as signed bits, the extent of a slice whose length is no multiple of
the stride is one too small (`src/jit/array_access.cpp:281`). `Compilable` is the part
of the language that the JIT supports; local variables of truth values and `select` of
them are not in it, they end the process (`KeepsTruth`).

## Runs

Bounds are chosen as the smallest in which every action happens and two of
everything can meet. `distinct` is the number of states.

| Run | Shows | Instance | distinct |
|---|---|---|---|
| `dataflow_serial` | With one client thread the tokens implement `AccessQueue`; kernels and views exclude each other (`ExclusiveAccess`), run in schedule order (`RunsInScheduleOrder`), and never wait in a circle (`NoCircularWait`); while anything is pending something can happen (`NeverStuck`); everything scheduled completes, kernels that throw included (`EveryRequestCompletes`); `shutdown` returns (`ShutdownCompletes`) with nothing pending (`PendingWorkFinished`). | two kernels sharing two objects in opposite argument order, a view of each object: the smallest case with a cycle to avoid | 10414 |
| `dataflow_racing` | *Violation.* Two threads that schedule the first access of an object both miss it in the map and both get it. The tutorial promises that a view blocks all other accesses. | one object, a kernel, a view | |
| `scheduler` | Work stays within its integer type (`TypeOK`) and differs between members by at most one estimate (`Balanced`), a member is lost exactly by a throwing estimate (`LostOnlyByThrow`), every call returns (`EveryCallReturns`). | up to three members, three kernels, estimates up to 2 with an integer limit of 3, so that with two members the third kernel overflows | 18615 |
| `memory_nodes` | A live object stays resident at home (`LiveObjectStaysResident`), users of a node share a page until an eviction (`SharePageUnlessEvicted`), a failed page fault stays (`FailureIsPermanent`), every resolve returns (`EveryResolveReturns`). | two nodes with memory for one page each, two objects, two kernels and a view away from the home of one object: page faults race and compete for the only page | 46398 |
| `memory_one_node` | Under its token everybody reads the last write, also after a copy of the tensor was destroyed, unless the object was finalized and then evicted (`ReadsLastWriteUnlessEvicted`), and all that users see is what `ObjectMemory` allows (`ImplementsMemory`). | one node with memory for one of two objects, three kernels, one view | 17573 |
| `memory_two_nodes` | *Violation.* The result of a kernel that ran on another node is not what a view at home shows, since nothing writes the copy back. | the tutorial's program: one kernel, one view | |
| `kernel` | As long as one thread has defined kernels, each has exactly its statements (`OwnCode`) and none is refused or crashes (`NoneRefused`), although definitions before it have thrown. After a second thread has come kernels may get wrong code or be refused, but a module in the library never changes (`ModulesNeverChange`). | three kernels of one thread, two of which may throw, one with two statements; a kernel of a second thread | 62824 |
| `vpu` | A module is compiled once (`CompiledOnce`), estimates rest on runs (`EstimateFromRun`) and runs lead to estimates (`RunsAreRemembered`), except for kernels with scalar parameters, which never get one (`ScalarsNeverEstimated`), and every call returns (`EveryCallReturns`). | three calls of a kernel with two keys, two of a kernel with a scalar parameter, two modules, training from 2 data points on (10 in the code) | 32893 |
| `hash_table` | Probing and iterating find every element once (`Consistent`), nothing is lost that was not erased (`LosesOnlyTheErased`), and the tables implement `AssociativeMap` (`ImplementsMap`), also between the single moves of a displacement and an erasure, until the first use of a table whose `entries_` never got a value. | two tables that hold up to two elements together, or one of them six (`MaxShared`), six keys of which two pairs share a home and the others are neighbours, so that the probe limit of 4 is exceeded, both policies, two load factors, requests of 1 and 6, of which the first rounds to the one bucket of a new table, every constructor, ranges of one element and of two that share a home | 122820 |
| `handles` | All operations pass each handle as the called function treats it: one reference per wrapper, whatever the program calls, of every object that no defective special member or throwing constructor has touched (`OneReferencePerWrapper`). | all wrappers and signatures, three slots and three library objects (no signature has more than two wrapper parameters, the third is the result), at most two objects miscounted at a time (`MaxMiscounted`), so that one at least is not | 73217 |
| `translation` | Every pass keeps the meaning (`PassesKeepMeaning`), the function is closed (`EntryIsClosed`), arguments reach their parameters (`ArgumentsReachParameters`), the text arrives unchanged or is refused for a known reason (`TextCarriesTheFunction`). | 28 statements with sums, deltas, multi indices, slices, diagonals and a sparse matrix with a full and a partial block, alone and before a second statement, with tensors as parameters, objects or both, and three kinds of index names | 6510 |
| `compilation` | The code computes the program, up to poison where its integers wrap (`ComputesTheProgram`), exactly the supported programs compile, and the process ends only over truth values (`CompilesWhatIsTyped`), axioms hold (`AxiomsHold`). | every operator with operands of ten kinds, loops with all combinations of bounds and steps, slices, nested loops, branches and local variables on arrays of rank 1 and 2; integers of 12 bits, far more than the numbers of these programs need; in 22 programs an integer wraps, 19 of them leave a poisoned element and 3 are undefined | 16077 |

Two of the passing properties state behaviour that is hardly intended:
`FailureIsPermanent` (a passing failure makes an object unresolvable on a node for
good) and `ScalarsNeverEstimated` (an empty `boost::optional` is not greater than
any threshold, so the first training never happens and the uniform fill scheduler
never learns the cost of such kernels). They are stated because the rest of the
system depends on them, and because a change there should be noticed.

`translation` and `compilation` turn deadlock checking off: a kernel that has been
translated, or whose translation threw, stops. All other runs check for deadlock;
where a system can finish, `Terminated` is its only step then.

Four defects have no run of their own. A kernel called with one object for two
parameters waits for its own first token, and shutdown for the kernel; `Dataflow` has it
(`EveryRequestCompletes` fails if a request names an object twice), the runs do not use
it, and `RepeatsHangCorrect` proves what comes of it: the kernel never starts, nothing
queued behind it does, and `shutdown` never gets past `finalize`. Two page faults of one
object on one node can race, so that the assertion `addr_was_free`
(`src/local_address_space.cpp:146`) fails; `memory_nodes` includes the race and shows
that it does no harm where assertions are compiled out. A definition that throws leaves
`current_kernel` set, so that the assertion of the next `construct`
(`src/qtl/kernel.cpp:43`) fails; `kernel` includes it. The constructors of the hash
table other than the default one work on a pointer without a value; `hash_table` includes
them and what is left of a table after a move, and its properties say nothing of an
execution that has become undefined that way.

Every property of a passing run has a mutant in `PROJECT.json`, a definition changed
the way a plausible mistake would change the code, which breaks it.

## Fairness

- `Dataflow`: weak fairness of every step of the runtime, of the end of a kernel
  (`Finish` or `Fail`) and of the destruction of a view. HPX runs every runnable
  thread and continuation; that kernels end and clients destroy their views is
  assumed of them. No fairness for `Call` and `Finalize`: clients may stop calling.
- `UniformFillScheduler`: strong fairness of taking the mutex, which HPX's mutex
  grants in FIFO order; weak fairness of the answer to the estimate and of
  the dispatch.
- `AddressSpace`: weak fairness of the steps of a resolve once it has begun and of
  its page fault, whose remote calls return or throw. None for clients and eviction.
- `DenseHashTable`, `NativeHandles`, `Translation` and `Compilation` have safety
  properties only and assume none.
- `CpuVpu`: weak fairness of a call's compilation and of its task. Weak is enough,
  since a call returns to the mutex never and there are finitely many calls.

## Proofs

All theorems hold for any values of the constants that satisfy the assumptions of
the modules, which only relate the constants to each other (each request has a
caller, the estimates fit the integer type, `None` is a new value and the like).

| Module | Theorem | Hypothesis |
|---|---|---|
| `DataflowProofs` | `TypeCorrect` | none, any number of client threads |
| | `ExclusiveAccessCorrect`, `ScheduleOrderCorrect`, `Refinement` | `SerialCallers`: one thread makes all calls |
| | `HoldsTokensCorrect` | none, any number of client threads |
| | `RepeatsHangCorrect`, `TokenLockRefinement` | `SerialCallers` |
| | `QueuePromise` | `ImplementsAccessQueue`, that is any implementation of the queue |
| | `ShutdownCorrect` | `SerialCallers`, and every kernel has an argument or a result |
| `DataflowWaitProofs` | `NoCircularWaitCorrect` | `SerialCallers` |
| | `TakingTurnsSuffices` | `[]OneScheduler`: any number of threads, whose calls take turns until their accesses are scheduled |
| | `NeverStuckCorrect` | `SerialCallers`, `DistinctObjects`: no kernel names an object twice, and `SelfBlocking = FALSE` |
| `UniformFillSchedulerProofs` | `TypeCorrect`, `BalancedCorrect`, `ChargesThePickedOnlyCorrect`, `LostOnlyByThrowCorrect` | none |
| `AddressSpaceProofs` | `TypeCorrect`, `ResidentCorrect`, `SharePageCorrect`, `FailureIsPermanentCorrect`, `MemoryRefinement`, `TokenLockRefinement` | none |
| | `MemoryPromise` | `ImplementsMemory`, which `MemoryRefinement` proves |
| | `ReadsLastWriteUnlessEvictedCorrect` | `UsersAtHome`: kernels and views run where their objects were created |
| | `ReadsLastWriteCorrect` | `UsersAtHome`, `AmpleMemory`: every node has room for its objects |
| | `NeverOutOfMemoryCorrect` | `UsersAtHome` and `AmpleMemory`, or `RoomForCopies`: every node has room for its objects and a copy for each of its users |
| `KernelDefinitionProofs` | `TypeCorrect`, `ModulesNeverChangeCorrect`, `OwnCodeCorrect`, `NoneRefusedCorrect` | none, any number of threads |
| `CpuVpuProofs` | `TypeCorrect`, `CompiledOnceCorrect`, `EstimateFromRunCorrect`, `ScalarsNeverEstimatedCorrect`, `RunsAreRememberedCorrect` | none |
| `DenseHashTableProofs` | `InvCorrect`, `ConsistentCorrect`, `LosesOnlyTheErasedCorrect`, `ImplementsMapCorrect` | none, any hash function, keys, tables, load factors and bucket counts |
| `NativeHandlesProofs` | `TypeCorrect`, `OneReferenceCorrect`, `FreedWithLastWrapper` | `PassedAsTaken`, for any wrappers, classes, operations and libraries |

`SerialCallers` is needed: `dataflow_racing` is the counterexample without it. The second
hypothesis of `ShutdownCorrect` is needed because `finalize` waits for tokens
only and a kernel without objects has none (`src/runtime.cpp:161` has a TODO about
it); QTL always produces a result, so its kernels satisfy it.

**Dataflow.** Exclusion is not inductive: it depends on each token waiting for the
right one, which depends on the map. `IInv` says that at most one call is scheduling
(`OneScheduler`), that `order` lists each token looked up once (`QueueInv`), that
every token waits for the one before it in `order` (`ChainInv`), that the map names
the last token, or the one before it between the two steps of a call
(`WavefrontInv`), that the released tokens are a prefix and only the next may be
granted (`PrefixInv`), that tokens and requests agree (`OwnerInv`), and that
`finalize` has seen the release of every entry it has passed (`FinalizeInv`).
`PrefixInv` gives exclusion and order, and with `ChainInv` that a grant is a grant
of the abstract queue. `FinalizeInv` with `PrefixInv` turns "the last token is
released" into "all tokens are".

Every step of any number of threads preserves `IInv`, except that calls that overlap
break `OneScheduler`. The lemmas are therefore proved from `[]OneScheduler`, which
`SerialCallers` implies (`OneSchedulerCorrect`); for several threads
`TakingTurnsSuffices` states it as what clients, or a lock around the two steps of a
schedule call, would have to provide. That a thread waits for a view, or a kernel for
its tokens, does no harm. `HoldsTokens` needs none of this: the two steps that could
take a token from a running owner are guarded by the owner's own end.

That the graph is a `TokenLock` follows in two stages: it implements the queue, and the
queue, of which `QueuesOK`, `Exclusive` and `FirstComeFirstServed` are invariants,
grants a token only to an object without a holder (`QueueIsLock`). For `RepeatsHang`,
two tokens of one object are never granted together, so a request that has two never has
all of its tokens (`RepeatedNotGranted`) and, as none is released before the kernel has
run (`OwnerInv`), whoever is queued behind it gets none (`PrefixInv`). `finalize` is
stuck too, since once it is through, all scheduled requests that have a token are over
(`DownMeansDone`).

`NoCircularWait` says that in any set of requests, also an infinite one, somebody is
queued behind none of the others. It is inductive together with `LastInv`: a request
whose accesses are not all scheduled yet is queued before nobody. A look-up puts its
request `r` behind others and before nobody, so a set with `r` in it has the first
of the others as its first.

`NeverStuck` follows from it. If a request waits, the first of the waiting ones has a
token that is not granted. The look-up made that token wait (`PublishedInv`), so it
waits for the one before it in the queue (`ChainInv`), whose owner, another request
because of `DistinctObjects`, does not wait: a kernel that runs will end, a token whose
owner is over is released, and a view is closed by its thread. The thread is free to do
so unless it is blocked in the call of another view, and then nobody is queued behind
the views it holds (`HeldInv`, with `CallInv`: one call blocks the thread at a time).
All three hypotheses are needed: without `DistinctObjects` a kernel waits for itself,
without `SelfBlocking = FALSE` a client does.

**UniformFillScheduler.** `Balanced` needs that the popped member was a least loaded
one and still is, since nobody else changes the queue meanwhile (`HolderInv`), and
that nothing happens before the start is complete (`BootInv`). The overflow branch
preserves differences because the subtracted work is the minimum; it stays
non-negative for the same reason. `ChargesThePickedOnly` follows from the same facts,
case by case: without overflow only the picked member's work changes; with it everybody
else's goes down by the work the picked one had and its own becomes zero, which leaves
the distances as they were: an estimate that would overflow is not counted at all
(`DistanceStep`).

**AddressSpace.** `ResidentInv` adds to the property that nobody at home has missed
a live object, so no page fault there can be between its two critical sections.
`ShareInv` says that a user has the page the table has unless the object was evicted
since; it needs that tables refer to pages of the right node and object (`PageInv`)
and that nobody knows an object before it is created (`UnbornInv`).

The theorems on values rest on `AtHomeInv`: of an object whose users are all at its
home, until it is evicted there, the primary page has the last write, the table has
this page, and no user misses it, has a page fault or works on another page. This is
said object by object, so that an object used at home keeps its value whatever the users
of others do. `memory_two_nodes` is the counterexample for the others.

Memory suffices in two cases. A node that has room for its objects, all of them used at
home, is never full while somebody allocates (`NeverFullAtHome`): no user at home has a
page of its own, and who allocates is creating an object whose page is not in use yet. A
node that has room for a copy per user as well is not full because the page to be
allocated is one of those there is room for (`NeverFullWithCopies`). Both use that the
pages in use, without the new one, are fewer than the capacity (`RoomLeft`). So no
step evicts anything or dereferences a null page (`KeepsOutOfTrouble`). Without the room
an object that was finalized and then evicted gets an empty page.

`MemoryRefinement` maps every step to one of `ObjectMemory` or to none. A resolve that
ends under the token, or a token taken after it, opens an access (`GivesAccess`): nobody
else has one because the token has one holder (`AccessAlone`), the version is not ahead
of the last write because no copy ever is and a resolved page is complete (`CopyInv`),
and it is the last one of an object used at home because of `AtHomeInv`. The end of an
access closes it, with or without a write (`EndsAccess`). Everything else, page faults
and their failures, copying and evictions of other pages included, leaves all accesses
and what they found as they are (`KeepsAccess`). `MemoryPromise` says what the users
have of it: one at a time, and the last write.

**KernelDefinition.** `OwnCode` and `NoneRefused` speak of the states in which a single
thread has defined kernels (`SingleThread`); `current_kernel` is shared by all threads,
and nothing of the kind holds after a second one has come. In these states only one
definition is under way and `current_kernel` is its
kernel (`DefinitionInv`), a kernel's code is a prefix of its function (`CodeInv`), and
every name in the library is below the counter (`NameInv`). A definition that threw
leaves `current_kernel` set, which `DefinitionInv` permits because the next
`Construct` overwrites it.

**CpuVpu.** A call compiles only what is not in the cache (`CompileInv`; that the
mutex is held by the compiling call and no other is part of `TypeOK`). The models
hold data exactly for calls that have run (`RunInv`). No regression is ever trained
(`UntrainedInv`), by the lemma that a data point added to an untrained model leaves
it untrained.

**DenseHashTable.** That probing finds an element depends on the elements before it,
whatever is moved in between. `IInv` says of every table that an element sits `dist`
slots behind its home and less than `max_lookups` behind (`WellPlaced`), that no key is
there twice (`Distinct`), that from its home to an element every slot holds one that
is at least as far from its own home as the walk has come (`Ordered`), and that `size`
counts the elements (`Counted`). The loop of `find` relies on it:
because of `Ordered` it cannot stop before an element it looks for (`ElementFound`), and
because of `WellPlaced` it stops at the special entry at the latest (`ProbeEnds`). Single steps of the
loops do not keep this, so there are three further parts. While a gap is closed, `Ordered` excepts the slots of the gap, and
the gap is empty and not wider than the next element is far from home (`GapInv`): the
element then lands at or behind its home, and the hole moves on by one. While an element
is carried it is where a probe for it would be (`CarryInv`), so that putting it down or
displacing another keeps the order, and giving up, which swaps it with the new element
where that was put first, leaves in all the same elements. The elements still to be
emplaced have keys of their own that the table does not hold (`New`), so that no
`emplace` in a rehash finds its key present and drops its element.

`Consistent` is a consequence in every state: size equals the elements visited because
the elements of different slots are different (`Distinct`). For the two properties of
steps the contents of a table are what it holds and what the running call has in
its hands: only calls from outside change them, and each action is a step of
`AssociativeMap` or a stuttering one. `WildInv` says of the tables without a buffer that no
call is under way on one of them and that none holds anything; a step on a table with a
buffer cannot change this (`ResultWild`), nor can a constructor, a move or a swap that
hands the pointer on. A step that becomes undefined is a stuttering one, and the
last of the behaviour.

**NativeHandles.** The theorems have the hypothesis `PassedAsTaken`, a statement of each
operation by itself: it passes a handle as it is exactly where the function it calls
only reads. It holds of the tables of `src/isl` and `src/cuda`, whose run `handles`
would find a signature that does not satisfy it by its effect on the counts; that it is enough, for any
number of wrappers and objects and any tables, is what is proved. The count is
inductive with the types. The lemmas relate the number of wrappers of an object before
and after a step: `OneWrapper` and `TwoWrappers` for the special members, `CallStep` for
the operations. The references an operation makes and those the library takes differ by
the arguments that are moved from or updated in place (`NetCost`, where `PassedAsTaken`
is used); these are different wrappers (`SpentCount`), the others keep what they hold
(`RemainingWrappers`), and the result, or the wrapper updated in place, is one more
holder of the new object. A defective member may change the counts of the objects it
touches only, which are exempt from then on (`DefectiveStep`, `MiscountStep`). That an
operation makes one wrapper or updates one at most is `SignatureAssumption`, which TLC
evaluates for all signatures in the run `handles`.

Only model-checked: all liveness properties (`EveryRequestCompletes`,
`ShutdownCompletes`, both `EveryCallReturns`, `EveryResolveReturns`), which the
prover cannot treat, and the properties of `Translation` and `Compilation`,
which are about recursive functions of trees and need induction over data. The other
way round, `HoldsTokens`, `RepeatsHang`, `ChargesThePickedOnly`, `NeverOutOfMemory` and
the two `ImplementsTokenLock` are proved and belong to no run.

## What the models leave out

- In the models of the runtime: values, types, layouts and shapes of objects, and what
  kernels compute. `AddressSpace` counts versions.
- Time and the arithmetic of estimates: floating-point numbers and, for symbolic
  regression, random search.
- Objects with components: no factory creates one, and sparse tensors end in
  `std::terminate` (`src/object_factory.cpp:100`).
- `free_object`, `try_resolve_object`, `dump`, `shared_access_token` as a shared
  token, `round_robin_scheduler`, `aggregate_vpu::try_estimate_execution_time` and
  the template `qubus::execute`: the runtime never reaches them.
- The host allocator throws instead of returning null (`src/host_allocator.cpp:57`),
  so that with it nothing is ever evicted; `AddressSpace` has both outcomes.
- Crashes of a locality: the code does not handle them, HPX ends the program.
- Loading of backends, start and shutdown of localities: see the plan.
- The pass manager: `get_analysis` returns the result for the first expression it was
  asked about whatever it is asked for (`include/qubus/pass_manager.hpp:281`), and `invalidate`
  clears nothing, so a model of its cache would have no property. Only the loop
  optimizer uses it.
- The loop optimizer and the analyses it needs: what they do is decided by isl.
- In QTL and IR: the C++ templates that build expressions, annotations, struct types;
  floating-point literals (the text form keeps six decimals).
- In the JIT: LLVM's optimisations, the scratch memory of array constructors, alias
  information; `member_access`, ordered comparisons of mixed types and the functions
  `sin`, `cos`, `sqrt`, `pow` and `select` appear as programs that do not compile, which
  is what the code makes of them.
- Callbacks of `ast_builder` and `stream`, and what isl and CUDA compute.
- `lru_cache`, `lfu_cache`, `delegate` and the other utilities.
- `AddressSpace` does not restrict the tokens to the order of `Dataflow`; it lets any
  user have a free token. Both modules are proved to implement `TokenLock`; that the
  composition of the two does is not stated.
- Kernels of several processes: `KernelDefinition` has one process, with one counter
  and one `current_kernel`.
