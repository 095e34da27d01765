-------------------------------- MODULE Jit --------------------------------
(***************************************************************************)
(* The just-in-time compiler of the CPU backend (src/jit): compile turns   *)
(* an expression into instructions.  The instructions are a tree: a node   *)
(* stands for the instructions that leave a value behind a reference, its  *)
(* type is the type of that value, and num the declaration or literal it   *)
(* is about.  Operands are listed in the order in which they are compiled: *)
(* the first of them that cannot be compiled ends the compilation, with an *)
(* exception (thrown) or with the process (terminated).                    *)
(***************************************************************************)
EXTENDS TypeInference

Failures == {"thrown", "terminated"}
Code(op, type, name, num, sub) ==
    LET failed == {k \in DOMAIN sub : sub[k].op \in Failures}
    IN  IF failed # {} THEN sub[CHOOSE k \in failed : \A n \in failed : k <= n]
        ELSE [op |-> op, type |-> type, name |-> name, num |-> num, sub |-> IF op \in Failures THEN <<>> ELSE sub]
Instruction(op, type, sub) == Code(op, type, "", 0, sub)
\* An exception once the operands have been compiled.
ThrownAfter(sub) == Instruction("thrown", NoType, sub)
Thrown == ThrownAfter(<<>>)

\* The table of mapped types is a hash table, and hash<type> does not know the
\* types of truth values and of statements: its exception cannot leave a noexcept
\* function, which ends the process.  An index has a hash, but no type in LLVM.
Scalars == {"double", "float", "integer", "index", "integer_range"}
Hashed(t) == \/ t.kind \in Scalars
             \/ t.kind \in {"complex", "array", "array_slice", "sparse_tensor", "sell_tensor"}
                /\ t.elem \in Scalars \cup {"complex"}
map_qubus_type(t) ==
    IF ~Hashed(t) THEN "terminated" ELSE IF index.kind \in {t.kind, t.elem} THEN "thrown" ELSE "mapped"
\* Code c with room for a value of type t, made when sub has been compiled.
WithRoom(t, sub, c) == IF map_qubus_type(t) = "mapped" THEN c ELSE Instruction(map_qubus_type(t), NoType, sub)

\* symbol_table: the reference of every declaration seen so far, also of those
\* whose scope is over.  A loop index is an integer whatever it is declared as.
RECURSIVE Declares(_), DeclaresAll(_)
Declares(e) ==
    CASE e.tag = "for" -> Declares(e.sub[4]) @@ (e.decls[1].id :> Code("slot", integer, "", e.decls[1].id, <<>>))
      [] e.tag = "local_variable_def" -> e.decls[1].id :> Code("slot", e.decls[1].type, "", e.decls[1].id, <<>>)
      [] e.tag \in {"compound", "if"} -> DeclaresAll(e.sub)
      [] OTHER -> <<>>
DeclaresAll(es) == IF es = <<>> THEN <<>> ELSE DeclaresAll(Tail(es)) @@ Declares(Head(es))
argument_table(decls) ==
    [id \in {decls[k].id : k \in DOMAIN decls} |->
         LET d == decls[CHOOSE k \in DOMAIN decls : decls[k].id = id] IN Code("argument", d.type, "", id, <<>>)]

----------------------------------------------------------------------------
(* Operators, on values that have been loaded.                             *)

arithmetic_kinds(op) ==
    CASE op \in {"plus_assign", "plus", "minus", "multiplies", "divides"} -> {"float", "double", "integer", "complex"}
      [] op = "modulus" -> {"float", "double", "integer"}
      [] op = "div_floor" -> {"integer"}
comparison_kinds == {"integer", "bool"}
logical_kinds == {"bool"}

Operation(op, t, left, right) ==
    LET kinds == CASE op \in comparisons -> comparison_kinds
                   [] op \in {"logical_and", "logical_or"} -> logical_kinds
                   [] op = "not_equal_to" -> {}
                   [] OTHER -> arithmetic_kinds(op)
    IN  IF t.kind \in kinds
        THEN Code("operate", IF op \in comparisons THEN bool_ ELSE left.type, op, 0, <<left, right>>)
        ELSE ThrownAfter(<<left, right>>)

\* left and right are the operands, l and r what they are compiled to.
emit_binary_operator(op, left, right, l, r) ==
    CASE typeof_(left) = NoType -> ThrownAfter(<<l, r>>)
      [] op = "assign" -> Instruction("store", unknown, <<l, r>>)
      [] op = "plus_assign" -> Instruction("store", unknown, <<l, Operation("plus_assign", typeof_(left), l, r)>>)
      [] OTHER -> Operation(op, typeof_(left), l, r)

emit_unary_operator(op, arg, c) ==
    LET negatable == typeof_(arg).kind \in {"float", "double", "integer", "complex"}
    IN  IF typeof_(arg) = NoType \/ op \notin {"negate", "plus"} \/ (op = "negate" /\ ~negatable) THEN ThrownAfter(<<c>>)
        ELSE Code("operate", c.type, IF op = "negate" THEN "negate" ELSE "nop", 0, <<c>>)

\* What each type can be converted to.
conversions(t) ==
    CASE t = double_ -> {complex("double"), double_}
      [] t = float_ -> {complex("double"), complex("float"), double_, float_}
      [] t = integer -> {complex("double"), complex("float"), float_, double_, integer}
      [] t = complex("float") -> {complex("double"), complex("float")}
      [] t = complex("double") -> {complex("double")}
      [] OTHER -> {}
emit_type_conversion(target, arg, c) ==
    IF target \in conversions(typeof_(arg)) THEN Instruction("convert", target, <<c>>) ELSE ThrownAfter(<<c>>)

----------------------------------------------------------------------------
(* Arrays.  An array is its rank, its extents and its elements, one behind *)
(* the other; table is the symbol table to compile their subscripts with.  *)

RECURSIVE compile(_, _), CompileAll(_, _)

\* A mutant: the first dimension varies fastest.
LastIndexFirst(array_expr, indices) ==
    LET n == Len(indices)
        step(sum, k) == plus(multiplies(intrinsic_function_expr("extent", <<array_expr, integer_literal(n - k)>>), sum),
                             indices[n + 1 - k])
    IN  Seqs!FoldLeft(step, integer_literal(0), [k \in 1 .. n |-> k])
linearized_index(array_expr, indices) ==
    LET step(sum, k) == plus(multiplies(intrinsic_function_expr("extent", <<array_expr, integer_literal(k - 1)>>), sum),
                             indices[k])
    IN  Seqs!FoldLeft(step, integer_literal(0), [k \in DOMAIN indices |-> k])

\* Literals that are added anywhere in a sum are collected at its end.
RECURSIVE collect_constant_terms(_)
collect_constant_terms(e) ==
    LET is_sum == e.tag = "binary_operator" /\ e.name = "plus"
        left == collect_constant_terms(e.sub[1])
        right == collect_constant_terms(e.sub[2])
    IN  IF ~is_sum THEN [e |-> e, constant |-> 0]
        ELSE IF e.sub[1].tag = "integer_literal" THEN [right EXCEPT !.constant = @ + e.sub[1].num]
        ELSE IF e.sub[2].tag = "integer_literal" THEN [left EXCEPT !.constant = @ + e.sub[2].num]
        ELSE [e |-> plus(left.e, right.e), constant |-> left.constant + right.constant]
reassociate_index_expression(e) ==
    LET r == collect_constant_terms(e) IN IF r.constant = 0 THEN r.e ELSE plus(r.e, integer_literal(r.constant))

\* The reference to an element: the array and the position.
emit_array_access(array_expr, indices, table) ==
    LET data == compile(array_expr, table)
        at == compile(reassociate_index_expression(linearized_index(array_expr, indices)), table)
    IN  IF value_type(data.type) = NoType THEN ThrownAfter(<<at, data>>) ELSE Instruction("element", value_type(data.type), <<data, at>>)

\* An element of a slice: the slice and the subscripts.
emit_array_slice_access(slice, indices, table) ==
    Instruction("slice_element", value_type(slice.type), <<slice>> \o [k \in DOMAIN indices |-> compile(indices[k], table)])

extent(array_like, dim, table) ==
    CASE typeof_(array_like).kind = "array" ->
           Instruction("extent", integer, <<compile(array_like, table), compile(dim, table)>>)
      [] typeof_(array_like).kind = "array_slice" ->
           Instruction("slice_extent", integer, <<compile(array_like, table), compile(dim, table)>>)
      [] OTHER -> ThrownAfter(<<compile(array_like, table)>>)

emit_array_like_access(array_like, indices, table) ==
    CASE typeof_(array_like).kind = "array" -> emit_array_access(array_like, indices, table)
      [] typeof_(array_like).kind = "array_slice" ->
           emit_array_slice_access(compile(array_like, table), indices, table)
      [] OTHER -> Thrown

\* Only arrays can be sliced, and in all dimensions.
emit_array_slice(data, indices, table) ==
    LET range(e) == Instruction("range", integer_range_type, [n \in DOMAIN e.sub |-> compile(e.sub[n], table)])
        operands == <<data>> \o [k \in DOMAIN indices |-> IF indices[k].tag = "integer_range" THEN range(indices[k]) ELSE Thrown]
    IN  IF data.type.kind # "array" THEN ThrownAfter(operands)
        ELSE Instruction("slice", array_slice(data.type.elem, data.type.rank), operands)

emit_subscription(array_like, indices, table) ==
    LET is(k, kind) == typeof_(indices[k]).kind = kind
    IN  IF \E k \in DOMAIN indices : is(k, "integer_range")
        THEN emit_array_slice(compile(array_like, table), indices, table)
        ELSE IF \A k \in DOMAIN indices : is(k, "integer")
        THEN emit_array_like_access(array_like, indices, table)
        ELSE Thrown

----------------------------------------------------------------------------
(* The cases of compile that are not one call.                             *)

\* The results of min, max and select get the type of the first argument, for
\* select that of the condition.
Selected(op, name, args, table) ==
    LET operands == [k \in DOMAIN args |-> compile(args[k], table)]
        type == typeof_(args[1])
    IN  IF type = NoType THEN ThrownAfter(operands) ELSE WithRoom(type, operands, Code(op, type, name, 0, operands))
min_max(name, args, table) == Selected("integers", name, args, table)
select(args, table) == Selected("select", "", args, table)
delta(args, table) == Code("integers", integer, "delta", 0, [k \in DOMAIN args |-> compile(args[k], table)])
\* A member is found through a table of pointers, which are used as offsets.
member_access(e, object) ==
    LET type == member_type(typeof_(e.sub[1]), e.name)
    IN  IF type = NoType THEN Thrown ELSE Code("member", type, e.name, 0, <<object>>)
local_variable_def(e, init) ==
    WithRoom(e.decls[1].type, <<>>, Code("define", e.decls[1].type, "", e.decls[1].id, <<init>>))
\* An array has no size in LLVM, so none can be allocated; other values start
\* uninitialized.
construct(e) ==
    CASE e.type.kind = "array" ->
           IF \E k \in DOMAIN e.sub : e.sub[k].tag # "integer_literal" THEN Thrown
           ELSE WithRoom(e.type, <<>>, Instruction("unsized", e.type, <<>>))
      [] OTHER -> IF e.sub # <<>> THEN Thrown ELSE WithRoom(e.type, <<>>, Instruction("uninitialized", e.type, <<>>))

\* emit_loop and emit_if_else.
emit_loop(idx, lower, upper, increment, body) == Code("loop", unknown, "", idx.id, <<increment, lower, upper, body>>)
emit_if_else(condition, then, else) == Instruction("branch", unknown, <<condition, then, else>>)
Nothing == Instruction("block", unknown, <<>>)

compile_for(e, table) ==
    LET inner == (e.decls[1].id :> Code("slot", integer, "", e.decls[1].id, <<>>)) @@ table
    IN  emit_loop(e.decls[1], compile(e.sub[1], inner), compile(e.sub[2], inner),
                  compile(e.sub[3], table), compile(e.sub[4], inner))
compile_if(e, table) ==
    emit_if_else(compile(e.sub[1], table), compile(e.sub[2], table),
                 IF Len(e.sub) = 3 THEN compile(e.sub[3], Declares(e.sub[2]) @@ table) ELSE Nothing)
compile_literal(e) == Code("constant", typeof_(e), "", e.num, <<>>)
compile(e, table) ==
    LET sub(x) == compile(x, table)
        calls(name, n) == e.tag = "intrinsic_function" /\ e.name = name /\ Len(e.sub) = n
    IN  CASE e.tag = "binary_operator" -> emit_binary_operator(e.name, e.sub[1], e.sub[2], sub(e.sub[1]), sub(e.sub[2]))
          [] e.tag = "unary_operator" -> emit_unary_operator(e.name, e.sub[1], sub(e.sub[1]))
          [] e.tag = "for" -> compile_for(e, table)
          [] e.tag = "if" -> compile_if(e, table)
          [] e.tag = "compound" -> Instruction("block", unknown, CompileAll(e.sub, table))
          [] e.tag \in {"double_literal", "float_literal", "integer_literal"} -> compile_literal(e)
          [] e.tag = "integer_range" ->
               Instruction("range", integer_range_type, <<sub(e.sub[1]), sub(e.sub[2]), sub(e.sub[3])>>)
          [] calls("delta", 2) -> delta(e.sub, table)
          [] calls("extent", 2) -> extent(e.sub[1], e.sub[2], table)
          [] calls("min", 2) \/ calls("max", 2) -> min_max(e.name, e.sub, table)
          [] calls("select", 3) -> select(e.sub, table)
          [] e.tag = "type_conversion" -> emit_type_conversion(e.type, e.sub[1], sub(e.sub[1]))
          [] e.tag = "variable_ref" /\ e.decls[1].id \in DOMAIN table -> table[e.decls[1].id]
          [] e.tag = "subscription" -> emit_subscription(e.sub[1], Tail(e.sub), table)
          [] e.tag = "member_access" -> member_access(e, sub(e.sub[1]))
          [] e.tag = "local_variable_def" -> local_variable_def(e, sub(e.sub[1]))
          [] e.tag = "construct" -> construct(e)
          [] OTHER -> Thrown
CompileAll(es, table) ==
    IF es = <<>> THEN <<>> ELSE <<compile(Head(es), table)>> \o CompileAll(Tail(es), Declares(Head(es)) @@ table)

\* compile_function: the parameters, then the result, then the body.
compile_function(function) ==
    LET decls == Append(function.params, function.result)
        parameter(d) == WithRoom(d.type, <<>>, Nothing)
        code == Instruction("function", unknown, [k \in DOMAIN decls |-> parameter(decls[k])]
                                                 \o <<compile(function.body, argument_table(decls))>>)
    IN  IF code.op \in Failures THEN code ELSE code.sub[Len(code.sub)]

----------------------------------------------------------------------------
\* Instructions that LLVM accepts: operands of one type, stores of the type of
\* the target, integers where positions are computed.  verifyModule is called but
\* its answer is ignored.
RECURSIVE WellFormed(_)
WellFormed(c) ==
    LET of(k) == c.sub[k].type
        integers(ks) == \A k \in ks : of(k) = integer
    IN  /\ \A k \in DOMAIN c.sub : WellFormed(c.sub[k])
        /\ CASE c.op = "operate" /\ Len(c.sub) = 2 -> of(1) = of(2)
             [] c.op = "store" -> of(1) = of(2)
             [] c.op = "integers" -> c.type = integer /\ integers({1, 2})
             [] c.op = "select" -> of(1) = bool_ /\ of(2) = of(3) /\ of(2) = c.type
             [] c.op \in {"loop", "range"} -> integers({1, 2, 3})
             [] c.op = "branch" -> of(1) = bool_
             [] c.op = "define" -> of(1) = c.type /\ c.type.kind # "array"
             [] c.op \in {"element", "extent", "slice_extent", "slice_element"} -> integers(2 .. Len(c.sub))
             [] c.op \in {"member", "unsized"} -> FALSE
             [] OTHER -> TRUE
=============================================================================
