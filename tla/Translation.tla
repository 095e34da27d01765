---------------------------- MODULE Translation ----------------------------
(***************************************************************************)
(* kernel::translate_kernel (src/qtl/kernel.cpp) as a state machine: the   *)
(* statements of a kernel go through the passes one after the other, the   *)
(* result is wrapped into a function, its parameters are connected with    *)
(* the arguments of a call, and the module travels to another locality.    *)
(***************************************************************************)
EXTENDS SparseTensor, QirText

\* Kernels: records of the parameters of the user function, its statements, the
\* extents of the indices it uses, the objects passed for the parameters and the
\* first free identity.  Objects: the objects before the call.
CONSTANTS Kernels, Objects

VARIABLES
    kernel,         \* the kernel that is translated
    computations,   \* computations_: the statements, in their current form
    at,             \* the statement that the loop of translate_kernel is at
    pass,           \* what is done next
    parameter_map,  \* the variables that stand for objects
    next,           \* the identity of the next variable
    entry,          \* the function that is made of the statements
    argument_map,   \* immutable_argument_map_ and mutable_argument_map_
    remote          \* the function as another locality parses it

vars == <<kernel, computations, at, pass, parameter_map, next, entry, argument_map, remote>>

NoFunction == <<>>

Init == /\ kernel \in Kernels
        /\ computations = kernel.statements
        /\ at = 1
        /\ pass = "extract_objects"
        /\ parameter_map = <<>>
        /\ next = kernel.next
        /\ entry = NoFunction /\ argument_map = <<>> /\ remote = NoFunction

----------------------------------------------------------------------------
\* One pass over the current statement: r is the statement, the parameter map and
\* the next identity after it.  An exception leaves translate_kernel; the last
\* pass goes on to the next statement.
Rewritten(r, now, then) ==
    /\ pass = now
    /\ computations' = [computations EXCEPT ![at] = r.e]
    /\ parameter_map' = r.map
    /\ next' = r.next
    /\ IF Throws(r.e) THEN pass' = "thrown" /\ UNCHANGED at
       ELSE IF then # "next statement" THEN pass' = then /\ UNCHANGED at
       ELSE IF at = Len(computations) THEN pass' = "wrap_code_in_task" /\ UNCHANGED at
       ELSE pass' = "extract_objects" /\ at' = at + 1
    /\ UNCHANGED <<kernel, entry, argument_map, remote>>

Current == computations[at]
Pure(e) == [e |-> e, map |-> parameter_map, next |-> next]
Numbering(r) == [e |-> r.e, map |-> parameter_map, next |-> r.next]

ExtractObjects == Rewritten(extract_objects(Current, parameter_map, next), "extract_objects", "legalize_expression")
Legalize == Rewritten(Pure(legalize_expression(Current)), "legalize_expression", "expand_multi_indices")
ExpandMultiIndices == Rewritten(Pure(expand_multi_indices(Current)), "expand_multi_indices", "fold_kronecker_deltas")
FoldKroneckerDeltas ==
    Rewritten(Pure(fold_kronecker_deltas(Current)), "fold_kronecker_deltas", "optimize_sparse_patterns")
OptimizeSparsePatterns ==
    Rewritten(Numbering(optimize_sparse_patterns(Current, next)), "optimize_sparse_patterns", "lower_top_level_sums")
LowerTopLevelSums ==
    Rewritten(Pure(lower_top_level_sums(Current)), "lower_top_level_sums", "lower_abstract_indices")
LowerAbstractIndices ==
    Rewritten(Numbering(lower_abstract_indices(Current, next)), "lower_abstract_indices", "next statement")

----------------------------------------------------------------------------
(* variable_access_analysis, as far as wrap_code_in_task uses it: the      *)
(* variables behind the accesses of an expression.                         *)

RECURSIVE AccessedVariable(_), get_accesses(_), AccessesOfAll(_), AccessSet(_), AccessSets(_)
AccessedVariable(e) == IF e.tag = "variable_ref" THEN e.decls[1] ELSE AccessedVariable(e.sub[1])

\* A mutant: what an access is subscripted with is not visited.
AccessesOutsideSubscripts(e) ==
    IF is_access(e) THEN <<AccessedVariable(e)>> ELSE get_accesses(Head(Children(e)))
\* A stack of pending expressions visits the last child first; what an access
\* qualifies is part of the access.
get_accesses(e) ==
    LET below == CASE e.tag = "variable_ref" -> <<>>
                   [] e.tag \in {"subscription", "member_access"} -> Tail(e.sub)
                   [] OTHER -> Children(e)
        flipped == [k \in DOMAIN below |-> below[Len(below) + 1 - k]]
    IN  (IF is_access(e) THEN <<AccessedVariable(e)>> ELSE <<>>) \o AccessesOfAll(flipped)
AccessesOfAll(es) == IF es = <<>> THEN <<>> ELSE get_accesses(Head(es)) \o AccessesOfAll(Tail(es))

\* Only assignments access anything; a loop hides the accesses to its index.
Visible(set, decl) == LET others(ds) == SelectSeq(ds, LAMBDA d : d # decl)
                      IN  [read |-> others(set.read), write |-> others(set.write)]
AccessSet(e) ==
    LET indirect == AccessesOfAll(Tail(e.sub[1].sub))
        target == <<AccessedVariable(e.sub[1])>>
        read == get_accesses(e.sub[2]) \o indirect
    IN  IF e.tag = "binary_operator" /\ e.name = "assign" THEN [read |-> read, write |-> target]
        ELSE IF e.tag = "binary_operator" /\ e.name = "plus_assign"
        THEN [read |-> read \o target, write |-> target]
        ELSE IF e.tag = "for" THEN Visible(AccessSets(Children(e)), e.decls[1])
        ELSE AccessSets(Children(e))
AccessSets(es) ==
    IF es = <<>> THEN [read |-> <<>>, write |-> <<>>]
    ELSE LET first == AccessSet(Head(es))
             others == AccessSets(Tail(es))
         IN  [read |-> first.read \o others.read, write |-> first.write \o others.write]

Occurs(x, seq) == \E k \in DOMAIN seq : seq[k] = x
Distinct(seq) == Seqs!FoldLeft(LAMBDA known, x : IF Occurs(x, known) THEN known ELSE Append(known, x), <<>>, seq)

\* The function has one result: the code asserts that one variable is written.
WrapCodeInTask ==
    LET root_task == sequenced_tasks(computations)
        accesses == AccessSet(root_task)
        mutable == Distinct(accesses.write)
        immutable == Distinct(SelectSeq(accesses.read, LAMBDA d : ~Occurs(d, mutable)))
    IN  /\ pass = "wrap_code_in_task"
        /\ IF Len(mutable) = 1
           THEN /\ entry' = [params |-> immutable, result |-> mutable[1], body |-> root_task]
                /\ pass' = "map_arguments"
           ELSE /\ pass' = "asserted"
                /\ UNCHANGED entry
        /\ UNCHANGED <<kernel, computations, at, parameter_map, next, argument_map, remote>>

\* The parameters of the kernel and the variables of its objects; and a mutant.
ObjectVariables == [k \in DOMAIN parameter_map |-> parameter_map[k].decl]
ObjectsFirst == ObjectVariables \o kernel.params
full_params == kernel.params \o ObjectVariables
\* std::find, from 0; a variable that is not there gets the position of end().
PositionIn(d, seq) ==
    IF Occurs(d, seq) THEN (CHOOSE k \in DOMAIN seq : seq[k] = d /\ \A l \in 1 .. (k - 1) : seq[l] # d) - 1
    ELSE Len(seq)

MapArguments ==
    /\ pass = "map_arguments"
    /\ argument_map' = [immutable |-> [k \in DOMAIN entry.params |-> PositionIn(entry.params[k], full_params)],
                        mutable |-> <<PositionIn(entry.result, full_params)>>]
    /\ pass' = "transport"
    /\ UNCHANGED <<kernel, computations, at, parameter_map, next, entry, remote>>

\* module::save and module::load.
Transport ==
    LET text == pretty_print(entry)
    IN  /\ pass = "transport"
        /\ IF printing_error(text) THEN pass' = "refused" /\ UNCHANGED remote
           ELSE /\ remote' = parse_qir(text, next)
                /\ pass' = IF remote' = NoFunction THEN "refused" ELSE "arrived"
        /\ UNCHANGED <<kernel, computations, at, parameter_map, next, entry, argument_map>>

Next == \/ ExtractObjects \/ Legalize \/ ExpandMultiIndices \/ FoldKroneckerDeltas
        \/ OptimizeSparsePatterns \/ LowerTopLevelSums \/ LowerAbstractIndices
        \/ WrapCodeInTask \/ MapArguments \/ Transport

Spec == Init /\ [][Next]_vars

----------------------------------------------------------------------------
(* Statements that the passes are not meant for.                           *)

Finds(e, pattern) == search(e, <<pattern>>).case # 0
RECURSIVE BelowSums(_)
BelowSums(e) == IF e.tag = "sum" THEN BelowSums(e.sub[1]) ELSE e

\* A sum that is only a part of the right-hand side is never lowered.
NestedSum(s) == Finds(BelowSums(s.sub[2]), NodePattern("sum", <<>>))
\* The tensor that is assigned is read, at other elements or in a sum: it is
\* overwritten on the way.
InPlace(s) ==
    LET reads == for_each(s.sub[2], subscription_pattern(value(s.sub[1].sub[1]), variable("indices")))
    IN  \/ \E k \in DOMAIN reads : reads[k]["indices"] # Tail(s.sub[1].sub)
        \/ reads # <<>> /\ Finds(s.sub[2], NodePattern("sum", <<>>))
SparseReads(s) ==
    SelectSeq(for_each(s.sub[2], subscription_pattern(bind_to(access_pattern, "tensor"), variable("indices"))),
              LAMBDA env : LET tensor == env["tensor"]
                           IN  "sparse_tensor" \in {tensor.type.kind} \cup {tensor.decls[k].type.kind : k \in DOMAIN tensor.decls})
\* A sparse tensor in a sum must be a factor of all of the right-hand side, the
\* only one, and its indices must differ.
SparseMisuse(s) == LET reads == SparseReads(s)
                   IN  /\ reads # <<>>
                       /\ \/ NestedSum(s)
                          \/ Len(reads) # 1
                          \/ reads[1]["indices"][1] = reads[1]["indices"][2]
                          \/ BelowSums(s.sub[2]) # s.sub[2] /\ s.sub[1].sub[1].tag = "subscription"
Supported(k) == \A n \in DOMAIN k.statements : ~InPlace(k.statements[n]) /\ ~SparseMisuse(k.statements[n])

----------------------------------------------------------------------------
\* The objects after the statements: as promised, in their current form, and as
\* a function that is called with objects for its parameters.
Bindings == [id \in {kernel.params[k].id : k \in DOMAIN kernel.params} |->
                 kernel.args[CHOOSE k \in DOMAIN kernel.params : kernel.params[k].id = id]]
            @@ [id \in {parameter_map[k].decl.id : k \in DOMAIN parameter_map} |->
                 parameter_map[CHOOSE k \in DOMAIN parameter_map : parameter_map[k].decl.id = id].object]
After(statements, Run(_, _, _)) ==
    LET from[k \in 0 .. Len(statements)] ==
            IF k = 0 THEN Objects ELSE Run(k, statements[k], Machine(Bindings, kernel.ext, from[k - 1]))
    IN  from[Len(statements)]
Promised == After(kernel.statements, LAMBDA k, e, m : Promise(e, m))
BeforeLoops == {"extract_objects", "legalize_expression"}
Computed == After(computations, LAMBDA k, e, m :
                      IF k < at \/ (k = at /\ pass \notin BeforeLoops) THEN Exec(e, m) ELSE Promise(e, m))
Called(func, args, result) ==
    LET bind == [id \in {func.params[k].id : k \in DOMAIN func.params} |->
                     args[CHOOSE k \in DOMAIN func.params : func.params[k].id = id]]
                @@ (func.result.id :> result)
    IN  Exec(func.body, Machine(bind, <<>>, Objects))

\* kernel::operator(): the objects of a call behind those of the kernel.
full_args == kernel.args \o [k \in DOMAIN parameter_map |-> parameter_map[k].object]
Arguments == [k \in DOMAIN argument_map.immutable |-> full_args[argument_map.immutable[k] + 1]]
Result == full_args[argument_map.mutable[1] + 1]

\* After every pass (objects extracted, loops added, multi indices expanded,
\* deltas folded, sparse sums turned into block loops, sums and indices lowered)
\* the statements still write exactly what the kernel says to every element, and
\* the block loops read no reserved but unwritten slot of a sparse tensor.
PassesKeepMeaning ==
    pass # "thrown" /\ Supported(kernel) => Computed = Promised

\* The function made of the statements refers to its parameters and to the loop
\* indices in scope only, and nothing of the tensor language is left in it, unless
\* a sum was hidden in the statement or a sparse tensor used outside of a sum.
RECURSIVE Lowered(_, _)
Lowered(e, scope) ==
    /\ e.tag \notin {"object", "multi_index", "sum", "for_all", "kronecker_delta"}
    /\ e.tag = "variable_ref" => e.decls[1] \in scope
    /\ e.tag = "subscription" /\ e.sub[1].tag = "variable_ref" => e.sub[1].decls[1].type.kind # "sparse_tensor"
    /\ \A k \in DOMAIN e.sub : Lowered(e.sub[k], IF e.tag = "for" /\ k = 4 THEN scope \cup {e.decls[1]} ELSE scope)
EntryIsClosed ==
    /\ entry # NoFunction
    /\ \A n \in DOMAIN kernel.statements :
           LET s == kernel.statements[n]
           IN  ~NestedSum(s) /\ ~SparseMisuse(s) /\ (SparseReads(s) = <<>> \/ BelowSums(s.sub[2]) # s.sub[2])
    => Lowered(entry.body, {entry.params[k] : k \in DOMAIN entry.params} \cup {entry.result})

\* A call hands every parameter of the function the object that the kernel names
\* it by, however the access analysis has ordered the parameters, and running the
\* function on these arguments does what the kernel promises.
ArgumentsReachParameters ==
    argument_map # <<>> /\ (\A n \in DOMAIN kernel.statements : ~NestedSum(kernel.statements[n])) =>
    /\ \A k \in DOMAIN entry.params : Arguments[k] = Bindings[entry.params[k].id]
    /\ Result = Bindings[entry.result.id]
    /\ Supported(kernel) => Called(entry, Arguments, Result) = Promised

----------------------------------------------------------------------------
(* What the text form cannot carry.                                        *)

\* Operators of one level that nest to the left come back nested to the right.
RECURSIVE RightNested(_), LoopNames(_)
RightNested(e) ==
    /\ e.tag = "binary_operator" /\ e.sub[1].tag = "binary_operator" =>
           \/ get_op_precedence_level(e.sub[1].name) # get_op_precedence_level(e.name)
           \/ e.name = e.sub[1].name /\ e.name \in {"plus", "multiplies"}
    /\ \A k \in DOMAIN e.sub : RightNested(e.sub[k])
LoopNames(e) == (IF e.tag = "for" THEN {e.decls[1].name} ELSE {})
                \cup UNION {LoopNames(e.sub[k]) : k \in DOMAIN e.sub}
ParameterNames == [k \in 1 .. (Len(entry.params) + 1) |->
                       IF k <= Len(entry.params) THEN entry.params[k].name ELSE entry.result.name]
NamesCollide == Len(Distinct(ParameterNames)) # Len(ParameterNames)
LoopHidesParameter == \E k \in DOMAIN ParameterNames : ParameterNames[k] \in LoopNames(entry.body)

\* A module that another locality accepts computes there what it computes here,
\* unless a printed expression nests operators of one level to the left or a loop
\* index has the name of a parameter.
ArrivesUnchanged ==
    /\ pass = "arrived"
    /\ RightNested(entry.body)
    /\ ~LoopHidesParameter
    /\ Supported(kernel)
    => Called(remote, Arguments, Result) = Called(entry, Arguments, Result)

\* Only a kernel of unlike parameter names, without sparse tensors and without
\* names that start like a keyword, arrives; and every such kernel does.
RefusedForItsNames ==
    pass \in {"arrived", "refused"} =>
    ((pass = "refused") <=>
        \/ NamesCollide
        \/ \E k \in 1 .. Len(entry.params) : entry.params[k].type.kind = "sparse_tensor"
        \/ \E name \in LoopNames(entry.body) : ~IsId(Token("name", name, 0, unknown))
        \/ ~Lowered(entry.body, {entry.params[k] : k \in DOMAIN entry.params} \cup {entry.result}))

\* A module travels to another locality as text: a kernel that the text form can carry
\* computes the same there, and exactly those it has no names for are refused.
TextCarriesTheFunction == ArrivesUnchanged /\ RefusedForItsNames
=============================================================================
