----------------------- MODULE KernelDefinitionProofs -----------------------
(***************************************************************************)
(* Proofs about KernelDefinition, for any kernels and any threads.         *)
(***************************************************************************)
EXTENDS KernelDefinition, TLAPS

LEMMA TypeInit == Init => TypeOK
BY KernelsAssumption DEF Init, TypeOK, KernelStates

LEMMA TypeStep ==
    ASSUME TypeOK, NEW k \in Kernels, KernelStep(k)
    PROVE  TypeOK'
<1> USE KernelsAssumption DEF TypeOK
<1>1. CASE Construct(k)
    BY <1>1 DEF Construct, KernelStates
<1>2. CASE AddCode(k)
    <2>1. pc' \in [Kernels -> KernelStates]
        BY <1>2 DEF AddCode, KernelStates
    <2>2. /\ added' \in [Kernels -> Nat]
          /\ \A j \in Kernels : added'[j] <= Statements[j]
        <3>1. CASE added' = added
            BY <3>1
        <3>2. CASE added' = [added EXCEPT ![k] = @ + 1]
            <4>1. added[k] \in Nat /\ Statements[k] \in Nat /\ added[k] < Statements[k]
                BY <1>2 DEF AddCode
            <4> QED
                BY <3>2, <4>1
        <3> QED
            BY <1>2, <3>1, <3>2 DEF AddCode
    <2>3. code' \in [Kernels -> Seq(Kernels)]
        <3>1. CASE code' = code
            BY <3>1
        <3>2. CASE current # None /\ code' = [code EXCEPT ![current] = Append(@, k)]
            <4>1. current \in Kernels /\ Append(code[current], k) \in Seq(Kernels)
                BY <3>2
            <4> QED
                BY <3>2, <4>1
        <3> QED
            BY <1>2, <3>1, <3>2 DEF AddCode
    <2> QED
        BY <1>2, <2>1, <2>2, <2>3 DEF AddCode
<1>3. CASE DefinitionThrows(k)
    BY <1>3 DEF DefinitionThrows, KernelStates
<1>4. CASE Constructed(k)
    BY <1>4 DEF Constructed, KernelStates
<1>5. CASE ReadCounter(k)
    BY <1>5 DEF ReadCounter, KernelStates
<1>6. CASE WriteCounter(k)
    BY <1>6 DEF WriteCounter, KernelStates
<1>7. CASE AddModule(k)
    <2>1. pc' \in [Kernels -> KernelStates]
        BY <1>7 DEF AddModule, KernelStates
    <2>2. [name |-> number[k], code |-> code[k]] \in [name : Nat, code : Seq(Kernels)]
        OBVIOUS
    <2>3. library' \subseteq [name : Nat, code : Seq(Kernels)]
        BY <1>7, <2>2 DEF AddModule
    <2> QED
        BY <1>7, <2>1, <2>3 DEF AddModule
<1> QED
    BY <1>1, <1>2, <1>3, <1>4, <1>5, <1>6, <1>7 DEF KernelStep

\* The state of the kernels, current_kernel, the counter and the library always
\* have their types; no function runs more statements than it has.
THEOREM TypeCorrect == Spec => []TypeOK
<1>1. TypeOK /\ UNCHANGED vars => TypeOK'
    BY DEF TypeOK, vars
<1>2. TypeOK /\ [Next]_vars => TypeOK'
    BY <1>1, TypeStep DEF Next, Terminated
<1> QED
    BY TypeInit, <1>2, PTL DEF Spec
-----------------------------------------------------------------------------

\* Names in the library are unique, whatever the threads do.
LibraryInv == \A m, n \in library : m.name = n.name => m = n

LEMMA LibraryStep ==
    ASSUME TypeOK, LibraryInv, NEW k \in Kernels, KernelStep(k)
    PROVE  library \subseteq library' /\ LibraryInv'
<1>1. CASE AddModule(k)
    <2> DEFINE new == [name |-> number[k], code |-> code[k]]
    <2>1. CASE library' = library
        BY <2>1 DEF LibraryInv
    <2>2. CASE number[k] \notin Names /\ library' = library \cup {new}
        <3>1. new.name = number[k] /\ \A m \in library : m.name # number[k]
            BY <2>2 DEF Names
        <3> HIDE DEF new
        <3> QED
            BY <2>2, <3>1 DEF LibraryInv
    <2> QED
        BY <1>1, <2>1, <2>2 DEF AddModule
<1>2. CASE ~AddModule(k)
    <2>1. library' = library
        BY <1>2 DEF KernelStep, Construct, AddCode, DefinitionThrows, Constructed, ReadCounter, WriteCounter
    <2> QED
        BY <2>1 DEF LibraryInv
<1> QED
    BY <1>1, <1>2

\* With any number of threads, what the library holds under a name never changes.
THEOREM ModulesNeverChangeCorrect == Spec => ModulesNeverChange
<1> DEFINE A == \A m \in library : m \in library' /\ \A n \in library' : n.name = m.name => n = m
<1>1. Init => LibraryInv
    BY DEF Init, LibraryInv
<1>2. TypeOK /\ LibraryInv /\ [Next]_vars => LibraryInv' /\ library \subseteq library'
    <2> SUFFICES ASSUME TypeOK, LibraryInv, [Next]_vars
                 PROVE  LibraryInv' /\ library \subseteq library'
        OBVIOUS
    <2>1. CASE UNCHANGED vars
        BY <2>1 DEF LibraryInv, vars
    <2>2. CASE \E k \in Kernels : KernelStep(k)
        BY <2>2, LibraryStep
    <2> QED
        BY <2>1, <2>2 DEF Next, Terminated
<1>3. LibraryInv' /\ library \subseteq library' => A
    BY DEF LibraryInv
<1>4. TypeOK /\ LibraryInv /\ [Next]_vars => [A]_vars
    BY <1>2, <1>3
<1> QED
    BY TypeCorrect, <1>1, <1>2, <1>4, PTL DEF Spec, ModulesNeverChange
-----------------------------------------------------------------------------
(***************************************************************************)
(* As long as one thread defines kernels                                   *)
(***************************************************************************)

LEMMA InvInit == Init => IInv
<1> SUFFICES ASSUME Init PROVE IInv
    OBVIOUS
<1>1. DefinitionInv /\ OwnCode /\ NoneRefused /\ NameInv
    BY DEF Init, DefinitionInv, OwnCode, NoneRefused, NameInv
<1>2. CodeInv
    BY DEF Init, CodeInv, OnlyOf, Wrapped
<1> QED
    BY TypeInit, <1>1, <1>2 DEF IInv, SerialInv

\* A thread that has begun to define kernels is never as if it had not.
LEMMA SingleThreadBefore ==
    ASSUME TypeOK, NEW k \in Kernels, KernelStep(k), SingleThread'
    PROVE  SingleThread
<1>1. \A j \in Kernels : pc[j] # "idle" => pc'[j] # "idle"
    BY DEF TypeOK, KernelStep, Construct, AddCode, DefinitionThrows, Constructed, ReadCounter, WriteCounter,
           AddModule
<1> QED
    BY <1>1 DEF SingleThread

\* The kernels but k, none of which is under definition while k is.
Rest(k) ==
    \A j \in Kernels \ {k} :
        /\ pc'[j] = pc[j] /\ added'[j] = added[j] /\ code'[j] = code[j] /\ number'[j] = number[j]
        /\ pc[j] \in {"idle", "thrown", "ready", "refused", "crashed"}

LEMMA RestUnchanged ==
    ASSUME SingleThread', TypeOK, SerialInv, NEW k \in Kernels, KernelStep(k)
    PROVE  Rest(k)
<1> USE KernelsAssumption DEF SerialInv, TypeOK
<1>1. \A j \in Kernels \ {k} : pc[j] \in {"idle", "thrown", "ready", "refused", "crashed"}
    <2>1. CASE Construct(k)
        <3>1. \A j \in Kernels \ {k} : pc'[j] = pc[j] /\ pc'[k] = "defining"
            BY <2>1 DEF Construct
        <3>2. \A j \in Kernels \ {k} : pc[j] # "idle" => Thread[j] = Thread[k]
            BY <3>1 DEF SingleThread
        <3> QED
            BY <2>1, <3>2 DEF Construct, ThreadFree, Over
    <2>2. CASE ~Construct(k)
        BY <2>2 DEF KernelStep, AddCode, DefinitionThrows, Constructed, ReadCounter, WriteCounter,
                    AddModule, DefinitionInv, Over
    <2> QED
        BY <2>1, <2>2
<1>2. AddCode(k) => current = k
    BY DEF AddCode, DefinitionInv
<1>3. \A j \in Kernels \ {k} : pc'[j] = pc[j] /\ added'[j] = added[j]
    BY DEF KernelStep, Construct, AddCode, DefinitionThrows, Constructed, ReadCounter, WriteCounter, AddModule
<1>4. \A j \in Kernels \ {k} : number'[j] = number[j]
    BY DEF KernelStep, Construct, AddCode, DefinitionThrows, Constructed, ReadCounter, WriteCounter, AddModule
<1>5. \A j \in Kernels \ {k} : code'[j] = code[j]
    <2>1. CASE AddCode(k)
        <3>1. code' = code \/ code' = [code EXCEPT ![k] = Append(@, k)]
            BY <1>2, <2>1 DEF AddCode
        <3> QED
            BY <3>1
    <2>2. CASE ~AddCode(k)
        BY <2>2 DEF KernelStep, Construct, DefinitionThrows, Constructed, ReadCounter, WriteCounter, AddModule
    <2> QED
        BY <2>1, <2>2
<1> QED
    BY <1>1, <1>3, <1>4, <1>5 DEF Rest

LEMMA SerialStep ==
    ASSUME SingleThread', SingleThread, TypeOK, SerialInv, NEW k \in Kernels, KernelStep(k)
    PROVE  SerialInv'
<1> USE KernelsAssumption DEF SerialInv
<1>1. TypeOK'
    BY TypeStep
<1>2. Rest(k)
    BY RestUnchanged
<1>3. AddCode(k) => current = k
    BY DEF AddCode, DefinitionInv
<1>4. AddModule(k) => number[k] \notin Names
    BY DEF AddModule, NameInv, Names
<1>5. pc[k] \in KernelStates /\ pc'[k] \in KernelStates
    BY <1>1 DEF TypeOK
<1>6. DefinitionInv'
    <2>1. \A j \in Kernels : pc'[j] = "defining" => j = k
        BY <1>2 DEF Rest
    <2>2. pc'[k] = "defining" => current' = k
        BY <1>3 DEF KernelStep, Construct, AddCode, DefinitionThrows, Constructed, ReadCounter,
                    WriteCounter, AddModule, TypeOK
    <2> QED
        BY <1>2, <2>1, <2>2 DEF DefinitionInv, Rest, Over
<1>7. CodeInv'
    <2>1. ASSUME NEW j \in Kernels, j # k
          PROVE  OnlyOf(code'[j], j, added'[j]) /\ (pc'[j] = "idle" => added'[j] = 0)
                 /\ (Wrapped(j)' => added'[j] = Statements[j])
        BY <1>2, <2>1 DEF CodeInv, Rest, Wrapped
    <2>2. OnlyOf(code'[k], k, added'[k])
        <3>1. CASE AddCode(k)
            <4>1. current = k /\ k # None /\ pc[k] # "thrown"
                BY <1>3, <3>1 DEF AddCode
            <4>2. added'[k] = added[k] + 1 /\ code'[k] = Append(code[k], k)
                BY <3>1, <4>1 DEF AddCode, TypeOK
            <4>3. code[k] \in Seq(Kernels) /\ OnlyOf(code[k], k, added[k])
                BY DEF TypeOK, CodeInv
            <4> QED
                BY <4>2, <4>3 DEF OnlyOf
        <3>2. CASE ~AddCode(k)
            <4>1. added' = added /\ code' = code
                BY <3>2 DEF KernelStep, Construct, DefinitionThrows, Constructed, ReadCounter,
                            WriteCounter, AddModule
            <4> QED
                BY <4>1 DEF CodeInv
        <3> QED
            BY <3>1, <3>2
    <2>3. pc'[k] = "idle" => added'[k] = 0
        BY <1>3 DEF KernelStep, Construct, AddCode, DefinitionThrows, Constructed, ReadCounter,
                    WriteCounter, AddModule, TypeOK
    <2>4. Wrapped(k)' => added'[k] = Statements[k]
        BY <1>3 DEF KernelStep, Construct, AddCode, DefinitionThrows, Constructed, ReadCounter,
                    WriteCounter, AddModule, TypeOK, Wrapped, CodeInv
    <2> QED
        BY <2>1, <2>2, <2>3, <2>4 DEF CodeInv
<1>8. NameInv'
    <2>1. ASSUME NEW j \in Kernels, j # k
          PROVE  pc'[j] \notin {"naming", "named"}
        BY <1>2, <2>1 DEF Rest
    <2>2. CASE ReadCounter(k)
        BY <2>1, <2>2 DEF ReadCounter, NameInv, TypeOK
    <2>3. CASE WriteCounter(k)
        BY <2>1, <2>3 DEF WriteCounter, NameInv, TypeOK
    <2>4. CASE AddModule(k)
        <3>1. library' = library \cup {[name |-> number[k], code |-> code[k]]}
            BY <1>4, <2>4 DEF AddModule
        <3>2. number[k] < counter /\ counter' = counter /\ pc'[k] = "ready"
            BY <1>4, <2>4 DEF AddModule, NameInv, TypeOK
        <3>3. \A m \in library' : m.name < counter'
            BY <3>1, <3>2 DEF NameInv
        <3> QED
            BY <2>1, <3>2, <3>3 DEF NameInv
    <2>5. CASE Construct(k) \/ AddCode(k) \/ DefinitionThrows(k) \/ Constructed(k)
        <3>1. counter' = counter /\ library' = library /\ pc'[k] \notin {"naming", "named"}
            BY <1>3, <2>5 DEF Construct, AddCode, DefinitionThrows, Constructed, TypeOK
        <3> QED
            BY <2>1, <3>1 DEF NameInv
    <2> QED
        BY <2>2, <2>3, <2>4, <2>5 DEF KernelStep
<1>9. OwnCode'
    <2>1. library \subseteq library'
        BY DEF KernelStep, Construct, AddCode, DefinitionThrows, Constructed, ReadCounter, WriteCounter,
               AddModule
    <2>2. ASSUME NEW j \in Kernels, j # k, pc'[j] = "ready"
          PROVE  \E m \in library' : m.name = number'[j] /\ OnlyOf(m.code, j, Statements[j])
        BY <1>2, <2>1, <2>2 DEF OwnCode, Rest
    <2>3. ASSUME pc'[k] = "ready"
          PROVE  \E m \in library' : m.name = number'[k] /\ OnlyOf(m.code, k, Statements[k])
        <3> DEFINE new == [name |-> number[k], code |-> code[k]]
        <3>1. AddModule(k)
            BY <1>3, <2>3 DEF KernelStep, Construct, AddCode, DefinitionThrows, Constructed, ReadCounter,
                              WriteCounter, TypeOK
        <3>2. new \in library' /\ number' = number
            BY <1>4, <3>1 DEF AddModule
        <3>3. OnlyOf(code[k], k, Statements[k])
            BY <3>1 DEF AddModule, CodeInv, Wrapped
        <3>4. new.name = number[k] /\ new.code = code[k]
            OBVIOUS
        <3> HIDE DEF new
        <3> QED
            BY <3>2, <3>3, <3>4
    <2> QED
        BY <2>2, <2>3 DEF OwnCode
<1>10. NoneRefused'
    <2>1. pc'[k] \notin {"refused", "crashed"}
        BY <1>3, <1>4 DEF KernelStep, Construct, AddCode, DefinitionThrows, Constructed, ReadCounter,
                          WriteCounter, AddModule, TypeOK
    <2> QED
        BY <1>2, <2>1 DEF NoneRefused, Rest
<1> QED
    BY <1>6, <1>7, <1>8, <1>9, <1>10

LEMMA InvStep ==
    ASSUME IInv, NEW k \in Kernels, KernelStep(k)
    PROVE  IInv'
<1>1. TypeOK /\ TypeOK'
    BY TypeStep DEF IInv
<1>2. ASSUME SingleThread' PROVE SerialInv'
    <2>1. SingleThread /\ SerialInv
        BY <1>1, <1>2, SingleThreadBefore DEF IInv
    <2> QED
        BY <1>1, <1>2, <2>1, SerialStep
<1> QED
    BY <1>1, <1>2 DEF IInv

LEMMA InvStutter ==
    ASSUME IInv, UNCHANGED vars
    PROVE  IInv'
<1> USE DEF vars
<1>1. TypeOK' /\ (SingleThread' <=> SingleThread)
    BY DEF IInv, TypeOK, SingleThread
<1> SUFFICES ASSUME SingleThread' PROVE SerialInv'
    BY <1>1 DEF IInv
<1> USE <1>1 DEF IInv, SerialInv
<1>2. DefinitionInv' /\ NoneRefused'
    BY DEF DefinitionInv, NoneRefused, Over
<1>3. CodeInv'
    BY DEF CodeInv, OnlyOf, Wrapped
<1>4. NameInv'
    BY DEF NameInv
<1>5. OwnCode'
    BY DEF OwnCode, OnlyOf
<1> QED
    BY <1>1, <1>2, <1>3, <1>4, <1>5

LEMMA InvCorrect == Spec => []IInv
<1>1. IInv /\ [Next]_vars => IInv'
    BY InvStep, InvStutter DEF Next, Terminated
<1> QED
    BY InvInit, <1>1, PTL DEF Spec

\* Until a second thread defines a kernel, every kernel becomes a module of exactly
\* its own statements, whichever definitions threw before.
THEOREM OwnCodeCorrect == Spec => []OwnCode
<1>1. IInv => OwnCode
    BY DEF IInv, SerialInv, OwnCode
<1> QED
    BY InvCorrect, <1>1, PTL

\* Until a second thread defines a kernel, none is refused by the library or
\* evaluated without a current kernel.
THEOREM NoneRefusedCorrect == Spec => []NoneRefused
<1>1. IInv => NoneRefused
    BY DEF IInv, SerialInv, NoneRefused
<1> QED
    BY InvCorrect, <1>1, PTL
=============================================================================
