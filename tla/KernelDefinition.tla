-------------------------- MODULE KernelDefinition --------------------------
(***************************************************************************)
(* The definition of QTL kernels by client threads, up to the module the   *)
(* kernel becomes in the module library.                                   *)
(*                                                                         *)
(* The constructor of a kernel runs the user's function, whose statements  *)
(* find the kernel they belong to in the global variable current_kernel.   *)
(* The statements are then wrapped into a module named by a static counter *)
(* and added to the library of the runtime, which refuses a second module  *)
(* of the same name.  current_kernel is atomic, but the counter is not,    *)
(* and nothing keeps two threads from defining kernels at the same time.   *)
(* The asserts of the code are compiled out.                               *)
(***************************************************************************)
EXTENDS Integers, Sequences, FiniteSets

CONSTANTS
    Kernels,     \* the kernels clients define
    Threads,     \* the client threads
    Thread,      \* the thread defining each kernel
    Statements,  \* how many statements the definition of a kernel has
    Throwing,    \* the kernels whose definition may throw
    None         \* no kernel

ASSUME KernelsAssumption ==
    /\ Thread \in [Kernels -> Threads]
    /\ Statements \in [Kernels -> Nat \ {0}]
    /\ Throwing \subseteq Kernels
    /\ None \notin Kernels

VARIABLES
    pc,       \* how far the constructor of each kernel has come
    current,  \* current_kernel
    added,    \* how many statements of each kernel's function have run
    code,     \* computations_: for every statement added, whose it is
    counter,  \* the static counter of wrap_code_in_task
    number,   \* the value of the counter each kernel has read
    library   \* module_index_: the modules, a number naming the code of a kernel

vars == <<pc, current, added, code, counter, number, library>>

KernelStates == {"idle", "defining", "thrown", "wrapping", "naming", "named", "ready", "refused", "crashed"}

Over(k) == pc[k] \in {"thrown", "ready", "refused", "crashed"}

\* A thread defines its kernels one after the other.
ThreadFree(t) == \A k \in Kernels : Thread[k] = t => pc[k] = "idle" \/ Over(k)

-----------------------------------------------------------------------------

\* Mutant: a kernel under construction is kept.
ConstructIfFree(k) ==
    /\ pc[k] = "idle"
    /\ ThreadFree(Thread[k])
    /\ pc' = [pc EXCEPT ![k] = "defining"]
    /\ current' = IF current = None THEN k ELSE current
    /\ UNCHANGED <<added, code, counter, number, library>>

\* this_kernel::construct stores the new kernel and calls the user's function.
Construct(k) ==
    /\ pc[k] = "idle"
    /\ ThreadFree(Thread[k])
    /\ pc' = [pc EXCEPT ![k] = "defining"]
    /\ current' = k
    /\ UNCHANGED <<added, code, counter, number, library>>

\* this_kernel::add_code: the next statement of k's function goes to the current
\* kernel; without one a null pointer is dereferenced, and one whose definition
\* has thrown is gone.
AddCode(k) ==
    /\ pc[k] = "defining"
    /\ added[k] < Statements[k]
    /\ \/ /\ current # None
          /\ added' = [added EXCEPT ![k] = @ + 1]
          /\ code' = [code EXCEPT ![current] = Append(@, k)]
          /\ UNCHANGED pc
       \/ /\ current # None => pc[current] = "thrown"
          /\ pc' = [pc EXCEPT ![k] = "crashed"]
          /\ UNCHANGED <<added, code>>
    /\ UNCHANGED <<current, counter, number, library>>

\* The user's function throws: construct is left without a reset of current_kernel.
DefinitionThrows(k) ==
    /\ pc[k] = "defining"
    /\ k \in Throwing
    /\ pc' = [pc EXCEPT ![k] = "thrown"]
    /\ UNCHANGED <<current, added, code, counter, number, library>>

\* The function returns and construct resets current_kernel.
Constructed(k) ==
    /\ pc[k] = "defining"
    /\ added[k] = Statements[k]
    /\ pc' = [pc EXCEPT ![k] = "wrapping"]
    /\ current' = None
    /\ UNCHANGED <<added, code, counter, number, library>>

\* wrap_code_in_task: counter++ is a read ...
ReadCounter(k) ==
    /\ pc[k] = "wrapping"
    /\ number' = [number EXCEPT ![k] = counter]
    /\ pc' = [pc EXCEPT ![k] = "naming"]
    /\ UNCHANGED <<current, added, code, counter, library>>

\* Mutant: the counter is not advanced.
WriteCounterUnchanged(k) ==
    /\ pc[k] = "naming"
    /\ pc' = [pc EXCEPT ![k] = "named"]
    /\ UNCHANGED <<current, added, code, counter, number, library>>

\* ... and a write.
WriteCounter(k) ==
    /\ pc[k] = "naming"
    /\ counter' = number[k] + 1
    /\ pc' = [pc EXCEPT ![k] = "named"]
    /\ UNCHANGED <<current, added, code, number, library>>

Names == {m.name : m \in library}

\* Mutant: an existing module is replaced.
AddModuleReplaces(k) ==
    /\ pc[k] = "named"
    /\ library' = {m \in library : m.name # number[k]} \cup {[name |-> number[k], code |-> code[k]]}
    /\ pc' = [pc EXCEPT ![k] = "ready"]
    /\ UNCHANGED <<current, added, code, counter, number>>

\* module_library_server::add emplaces the module or throws duplicate_module_error,
\* which leaves the constructor of the kernel.
AddModule(k) ==
    /\ pc[k] = "named"
    /\ \/ /\ number[k] \notin Names
          /\ library' = library \cup {[name |-> number[k], code |-> code[k]]}
          /\ pc' = [pc EXCEPT ![k] = "ready"]
       \/ /\ number[k] \in Names
          /\ pc' = [pc EXCEPT ![k] = "refused"]
          /\ UNCHANGED library
    /\ UNCHANGED <<current, added, code, counter, number>>

Terminated == (\A k \in Kernels : Over(k)) /\ UNCHANGED vars

Init ==
    /\ pc = [k \in Kernels |-> "idle"]
    /\ current = None
    /\ added = [k \in Kernels |-> 0]
    /\ code = [k \in Kernels |-> <<>>]
    /\ counter = 0
    /\ number = [k \in Kernels |-> 0]
    /\ library = {}

KernelStep(k) ==
    \/ Construct(k) \/ AddCode(k) \/ DefinitionThrows(k) \/ Constructed(k)
    \/ ReadCounter(k) \/ WriteCounter(k) \/ AddModule(k)

Next == (\E k \in Kernels : KernelStep(k)) \/ Terminated

Spec == Init /\ [][Next]_vars

-----------------------------------------------------------------------------
(***************************************************************************)
(* Properties                                                              *)
(***************************************************************************)

\* The types of the kernels under definition, of current_kernel and of the library.
TypeOK ==
    /\ pc \in [Kernels -> KernelStates]
    /\ current \in Kernels \cup {None}
    /\ added \in [Kernels -> Nat]
    /\ \A k \in Kernels : added[k] <= Statements[k]
    /\ code \in [Kernels -> Seq(Kernels)]
    /\ counter \in Nat
    /\ number \in [Kernels -> Nat]
    /\ library \subseteq [name : Nat, code : Seq(Kernels)]

\* c consists of n statements, all of kernel k.
OnlyOf(c, k, n) == Len(c) = n /\ \A i \in 1..Len(c) : c[i] = k

\* Only one of the threads has defined kernels so far.
SingleThread == \A k, j \in Kernels : pc[k] # "idle" /\ pc[j] # "idle" => Thread[k] = Thread[j]

\* As long as a single thread defines kernels, every kernel that was defined is
\* in the library under its own name with all of its statements and no others,
\* whichever definitions threw before it.
OwnCode ==
    SingleThread =>
        \A k \in Kernels : pc[k] = "ready" =>
            \E m \in library : m.name = number[k] /\ OnlyOf(m.code, k, Statements[k])

\* As long as a single thread defines kernels, no two of them are given the same
\* name, so that the library refuses none; and no statement is evaluated outside
\* of a definition.
NoneRefused == SingleThread => \A k \in Kernels : pc[k] \notin {"refused", "crashed"}

\* What the library holds under a name never changes, with any number of threads:
\* plans compiled from it stay valid.
ModulesNeverChange ==
    [][\A m \in library : m \in library' /\ \A n \in library' : n.name = m.name => n = m]_vars

-----------------------------------------------------------------------------
(***************************************************************************)
(* The inductive invariant                                                 *)
(***************************************************************************)

Wrapped(k) == pc[k] \in {"wrapping", "naming", "named", "ready", "refused"}

\* Only one definition is under way and current_kernel is its kernel.
DefinitionInv ==
    /\ \A k, j \in Kernels : k # j => pc[k] = "idle" \/ Over(k) \/ pc[j] = "idle" \/ Over(j)
    /\ \A k \in Kernels : pc[k] = "defining" => current = k

\* A kernel has the statements of its function that have run.
CodeInv ==
    \A k \in Kernels : /\ OnlyOf(code[k], k, added[k])
                       /\ pc[k] = "idle" => added[k] = 0
                       /\ Wrapped(k) => added[k] = Statements[k]

\* Every name in the library was drawn from the counter before.
NameInv ==
    /\ \A m \in library : m.name < counter
    /\ \A k \in Kernels : /\ pc[k] = "naming" => number[k] = counter
                          /\ pc[k] = "named" => \A m \in library : m.name # number[k]
                          /\ pc[k] = "named" => number[k] < counter

\* What holds until a second thread defines a kernel.
SerialInv == DefinitionInv /\ CodeInv /\ NameInv /\ OwnCode /\ NoneRefused

IInv == TypeOK /\ (SingleThread => SerialInv)
=============================================================================
