--------------------------- MODULE TypeInference ---------------------------
(***************************************************************************)
(* The types of expressions (src/IR/type_inference.cpp) and three users of *)
(* them: constant folding, the pass that makes implicit conversions        *)
(* explicit, and the axioms that hold in loop bodies and branches.  An     *)
(* exception is a type, NoType, or an expression, Exception.               *)
(***************************************************************************)
EXTENDS QirPatterns

NoType == Scalar("none")
Exception == Inner("exception", "", <<>>)
RECURSIVE Raised(_)
Raised(e) == e.tag = "exception" \/ \E k \in DOMAIN e.sub : Raised(e.sub[k])

complex(real) == Type("complex", real, 0)
real_part(t) == IF t.kind = "complex" THEN Scalar(t.elem) ELSE t
Width == [integer |-> 1, float |-> 2, double |-> 3]
wider(a, b) == IF Width[a.kind] >= Width[b.kind] THEN a ELSE b
common_type(s, t) ==
    IF s = t /\ s \in {bool_, index} THEN s
    ELSE IF ~({real_part(s).kind, real_part(t).kind} \subseteq DOMAIN Width) THEN NoType
    ELSE IF "complex" \in {s.kind, t.kind} THEN complex(wider(real_part(s), real_part(t)).kind)
    ELSE wider(s, t)

\* The elements of an array are scalars or complex numbers of doubles.
ElementType(kind) == IF kind = "complex" THEN complex("double") ELSE Scalar(kind)
value_type(t) == IF t.kind \in {"array", "array_slice"} THEN ElementType(t.elem) ELSE NoType

\* Overloads match exactly; an unknown name or overload is an exception.
lookup_intrinsic_result_type(name, args) ==
    LET reals == {double_, float_}
        two_integers == args = <<integer, integer>>
        measurable == /\ Len(args) = 2 /\ args[2] = integer
                      /\ args[1].kind \in {"array", "array_slice"} /\ args[1].rank \in 1 .. 12
                      /\ args[1].elem \in {"double", "float", "complex", "integer"}
    IN  CASE name \in {"sin", "cos", "tan", "exp", "abs", "sqrt"} /\ Len(args) = 1 /\ args[1] \in reals -> args[1]
          [] name = "pow" /\ Len(args) = 2 /\ args[1] \in reals /\ args[2] = integer -> args[1]
          [] name = "extent" /\ measurable -> integer
          [] name \in {"delta", "min", "max"} /\ two_integers -> integer
          [] name = "select" /\ args = <<bool_, integer, integer>> -> integer
          [] OTHER -> NoType

\* The members of a sparse tensor; its data is a struct of vectors.
member_type(t, name) ==
    CASE t.kind = "sparse_tensor" /\ name = "data" -> Type("sell_tensor", t.elem, 0)
      [] t.kind = "sparse_tensor" /\ name = "shape" -> array("integer", 1)
      [] t.kind = "sell_tensor" /\ name = "val" -> array(t.elem, 1)
      [] t.kind = "sell_tensor" /\ name \in {"col", "cs", "cl"} -> array("integer", 1)
      [] OTHER -> NoType

comparisons == {"equal_to", "less_equal", "less", "greater_equal", "greater"}
RECURSIVE typeof_(_)
slice_or_element(element, types) ==
    LET rank == Len(SelectSeq(types, LAMBDA t : t # integer))
    IN  IF element = NoType \/ \E k \in DOMAIN types : types[k] = NoType THEN NoType
        ELSE IF rank > 0 THEN array_slice(element.kind, rank) ELSE element
typeof_subscription(e) ==
    slice_or_element(value_type(typeof_(e.sub[1])), [k \in DOMAIN Tail(e.sub) |-> typeof_(e.sub[1 + k])])
typeof_(e) ==
    CASE e.tag = "binary_operator" ->
           IF e.name \in comparisons THEN bool_ ELSE common_type(typeof_(e.sub[1]), typeof_(e.sub[2]))
      [] e.tag = "unary_operator" -> typeof_(e.sub[1])
      [] e.tag \in {"for", "if", "compound", "local_variable_def"} -> unknown
      [] e.tag = "subscription" -> typeof_subscription(e)
      [] e.tag \in {"type_conversion", "construct"} -> e.type
      [] e.tag = "double_literal" -> double_
      [] e.tag = "float_literal" -> float_
      [] e.tag = "integer_literal" -> integer
      [] e.tag = "bool_literal" -> bool_
      [] e.tag = "variable_ref" -> e.decls[1].type
      [] e.tag = "intrinsic_function" ->
           lookup_intrinsic_result_type(e.name, [k \in DOMAIN e.sub |-> typeof_(e.sub[k])])
      [] e.tag = "member_access" -> member_type(typeof_(e.sub[1]), e.name)
      [] e.tag = "integer_range" -> integer_range_type
      [] OTHER -> NoType

----------------------------------------------------------------------------
(* Integer arithmetic of C++, within the range of its 64 bits.             *)

\* Towards zero.
Quotient(x, y) == LET size(n) == IF n < 0 THEN 0 - n ELSE n
                      q == size(x) \div size(y)
                  IN  IF (x < 0) = (y < 0) THEN q ELSE 0 - q
Remainder(x, y) == x - y * Quotient(x, y)
\* The quotient is reduced unless it is exact or quotient and remainder have one
\* sign: not the floor of a quotient of a negative number.
div_floor(x, y) == LET q == Quotient(x, y)
                       r == Remainder(x, y)
                   IN  IF r = 0 \/ (r < 0) = (q < 0) THEN q ELSE q - 1
\* What constant folding makes of two literals.
IntegerResult(op, x, y) ==
    CASE op = "plus" -> x + y
      [] op = "minus" -> x - y
      [] op = "multiplies" -> x * y
      [] op = "divides" -> Quotient(x, y)
      [] op = "modulus" -> Remainder(x, y)
      [] op = "div_floor" -> div_floor(x, y)
IntegerOperators == {"plus", "minus", "multiplies", "divides", "modulus", "div_floor"}

fold_impl(e) ==
    LET literal(k) == e.sub[k].tag = "integer_literal"
    IN  IF typeof_(e) = NoType THEN Exception
        ELSE IF typeof_(e) # integer THEN e
        ELSE IF e.tag = "binary_operator" /\ e.name \in IntegerOperators /\ literal(1) /\ literal(2)
        THEN integer_literal(IntegerResult(e.name, e.sub[1].num, e.sub[2].num))
        ELSE IF e.tag = "unary_operator" /\ literal(1) /\ e.name \in {"plus", "negate"}
        THEN integer_literal(IF e.name = "plus" THEN e.sub[1].num ELSE 0 - e.sub[1].num)
        ELSE e
RECURSIVE fold_constant_expressions(_)
fold_constant_expressions(e) ==
    fold_impl(substitute_subexpressions(e, [k \in DOMAIN Children(e) |-> fold_constant_expressions(Children(e)[k])]))

----------------------------------------------------------------------------
\* An operand that has not the type of the operator is converted, the target of
\* an assignment too; comparisons and the arguments of functions are not.
Converted(e, t) == IF typeof_(e) = t THEN e ELSE type_conversion_expr(t, e)
ConvertOperands(e, st) ==
    IF e.tag = "binary_operator" /\ e.name \notin comparisons
    THEN Becomes(IF typeof_(e) = NoType THEN Exception
                 ELSE binary_operator_expr(e.name, Converted(e.sub[1], typeof_(e)), Converted(e.sub[2], typeof_(e))), st)
    ELSE IF e.tag = "unary_operator" /\ typeof_(e) = NoType THEN Becomes(Exception, st)
    ELSE Becomes(e, st)
\* A mutant: the operands stay as they are.
LeaveImplicit(e) == e
make_implicit_conversions_explicit(e) == substitute(e, <<>>, ConvertOperands).e

----------------------------------------------------------------------------
(* axiom_analysis: what may be assumed in the parts of an expression.      *)

minus(l, r) == binary_operator_expr("minus", l, r)
less(l, r) == binary_operator_expr("less", l, r)
\* A mutant: a loop that ends one step early.
LastTwice(e) == <<less(variable_ref_expr(e.decls[1]), minus(e.sub[2], modulus(minus(e.sub[2], e.sub[1]), e.sub[3])))>>
body_axioms(e) ==
    LET idx == variable_ref_expr(e.decls[1])
        lower == e.sub[1]
        upper == e.sub[2]
        increment == e.sub[3]
        end == IF increment.tag = "integer_literal" /\ increment.num # 1
               THEN fold_constant_expressions(minus(upper, modulus(minus(minus(upper, lower), integer_literal(1)), increment)))
               ELSE upper
    IN  <<binary_operator_expr("greater_equal", idx, lower), less(idx, end),
          binary_operator_expr("equal_to", modulus(minus(idx, lower), increment), integer_literal(0)),
          less(lower, upper)>>
\* The axioms that a node adds for its child k.
generate_axiom_scope_tree(e, k) ==
    CASE e.tag = "for" /\ k = 4 -> body_axioms(e)
      [] e.tag = "if" /\ k = 2 -> <<e.sub[1]>>
      [] e.tag = "if" /\ k = 3 -> <<unary_operator_expr("logical_not", e.sub[1])>>
      [] OTHER -> <<>>
=============================================================================
