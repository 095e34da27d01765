-------------------------- MODULE MCCompilation --------------------------
(***************************************************************************)
(* Small functions for Compilation: every operator on operands of every    *)
(* type, and loops, branches, slices and functions of integers over a few  *)
(* small arrays.                                                           *)
(***************************************************************************)
EXTENDS Compilation

Array(elem, shape, element(_)) == [elem |-> elem, shape |-> shape, at |-> [p \in Positions(shape) |-> element(p)]]
MCObjects ==
    [I |-> Array("integer", <<4>>, LAMBDA p : p[1] + 1),
     J |-> Array("integer", <<4>>, LAMBDA p : 5 - p[1]),
     A |-> Array("double", <<5>>, LAMBDA p : 6 * p[1] + 3),
     F |-> Array("float", <<2>>, LAMBDA p : 12 - 6 * p[1]),
     C |-> Array("complex", <<2>>, LAMBDA p : <<6 * p[1], 12>>),
     M |-> Array("integer", <<2, 3>>, LAMBDA p : 3 * p[1] + p[2]),
     N |-> Array("integer", <<3, 2>>, LAMBDA p : 7)]
Names == <<"I", "J", "A", "F", "C", "M", "N">>
Number(o) == CHOOSE k \in DOMAIN Names : Names[k] = o
Decl(o) == variable_declaration(o, Number(o), array(MCObjects[o].elem, Len(MCObjects[o].shape)))
Ref(o) == variable_ref_expr(Decl(o))
Lit(n) == integer_literal(n)
At(o, es) == subscription_expr(Ref(o), es)
Binary(op, l, r) == binary_operator_expr(op, l, r)
Call(name, args) == intrinsic_function_expr(name, args)
Function(b) == [function |-> [params |-> [k \in 1 .. 6 |-> Decl(Names[k])], result |-> Decl("N"), body |-> b],
                args |-> [k \in 1 .. 7 |-> Names[k]]]

\* One operand of each type.
Operands == {At("I", <<Lit(2)>>), Lit(2), At("A", <<Lit(1)>>), At("F", <<Lit(1)>>), float_literal(2),
             At("C", <<Lit(1)>>), type_conversion_expr(complex("float"), At("F", <<Lit(0)>>)),
             less(At("I", <<Lit(0)>>), Lit(2)), bool_literal(TRUE), unary_operator_expr("negate", Lit(5))}
AssignTargets == {At("J", <<Lit(1)>>), At("A", <<Lit(0)>>), At("F", <<Lit(0)>>), At("C", <<Lit(0)>>)}
Operators == binary_operator_tags \ Assignments
Expressions ==
    {Binary(op, l, r) : op \in Operators, l \in Operands, r \in Operands}
    \cup {unary_operator_expr(op, l) : op \in unary_operator_tags, l \in Operands}
    \cup {type_conversion_expr(t, l) : t \in {integer, double_, float_, complex("double")}, l \in Operands}
    \cup {Call(f, <<l, r>>) : f \in {"min", "max", "delta"}, l \in Operands, r \in {Lit(4), At("J", <<Lit(3)>>)}}
    \cup {Call("select", <<l, Lit(1), Lit(2)>>) : l \in Operands} \cup {Call("sqrt", <<l>>) : l \in Operands}
Simple ==
    {Binary("assign", t, e) : t \in {At("J", <<Lit(1)>>), At("C", <<Lit(0)>>)}, e \in Expressions}
    \cup {Binary(op, t, e) : op \in Assignments, t \in AssignTargets, e \in Operands}
    \cup {if_expr(<<e, assign(At("J", <<Lit(0)>>), Lit(9))>>) : e \in Expressions}

Var(name, id) == variable_declaration(name, id, integer)
i == Var("i", 21)
j == Var("j", 22)
x == variable_declaration("x", 23, double_)
n == Var("n", 24)
s == variable_declaration("s", 25, array_slice("integer", 1))
truth == variable_declaration("truth", 26, bool_)
V(d) == variable_ref_expr(d)
Loop(d, lower, upper, increment, b) == for_expr("sequential", d, lower, upper, increment, b)
Range(lower, upper, stride) == integer_range_expr(lower, upper, stride)
Slice(o, ranges) == subscription_expr(Ref(o), ranges)
Of(sliced, es) == subscription_expr(sliced, es)
Sequence(b) == sequenced_tasks(b)
Let(d, e) == local_variable_def_expr(d, e)

\* Every other element, and a block in the middle of a matrix.
Odd == Slice("I", <<Range(Lit(1), Lit(5), Lit(2))>>)
Block == Slice("M", <<Range(Lit(0), Lit(2), Lit(1)), Range(Lit(1), Lit(3), Lit(1))>>)
Extent(o, d) == Call("extent", <<Ref(o), Lit(d)>>)
Loops ==
    {Loop(i, lower, upper, Lit(step), assign(At("I", <<V(i)>>), plus(multiplies(V(i), Lit(2)), At("J", <<V(i)>>)))) :
        lower \in {Lit(0), Lit(1), minus(Lit(3), Lit(2))}, upper \in {Lit(1), Lit(3), Lit(4), Extent("I", 0), At("J", <<Lit(1)>>)},
        step \in {1, 2, 3}}
Structured == {
    Loop(i, Lit(0), Extent("M", 0), Lit(1), Loop(j, Lit(0), Extent("M", 1), Lit(1),
        assign(At("N", <<V(j), V(i)>>), At("M", <<V(i), V(j)>>)))),
    Loop(i, Lit(0), Lit(2), Lit(1), Loop(j, Lit(1), Lit(3), Lit(1),
        assign(At("N", <<V(j), V(i)>>), At("M", <<V(i), plus(minus(V(j), Lit(2)), Lit(1))>>)))),
    Loop(i, Lit(0), Lit(3), Lit(1), assign(At("I", <<plus(Lit(1), V(i))>>), At("I", <<plus(plus(V(i), Lit(2)), Lit(-1))>>))),
    Loop(i, Lit(0), Lit(2), Lit(1), assign(Of(Odd, <<V(i)>>), plus(Of(Odd, <<V(i)>>), Lit(10)))),
    Loop(i, Lit(0), Call("extent", <<Odd, Lit(0)>>), Lit(1), Binary("plus_assign", Of(Odd, <<V(i)>>), V(i))),
    Loop(i, Lit(0), Call("extent", <<Slice("I", <<Range(Lit(1), Lit(4), Lit(2))>>), Lit(0)>>), Lit(1), assign(At("J", <<V(i)>>), Lit(0))),
    Loop(i, Lit(0), Lit(2), Lit(1), Loop(j, Lit(0), Lit(2), Lit(1), assign(At("N", <<V(i), V(j)>>), Of(Block, <<V(i), V(j)>>)))),
    assign(Of(Of(Block, <<Range(Lit(0), Lit(1), Lit(1)), Range(Lit(0), Lit(1), Lit(1))>>), <<Lit(0), Lit(0)>>), Lit(1)),
    assign(Of(Slice("M", <<Lit(1), Range(Lit(0), Lit(3), Lit(1))>>), <<Lit(0)>>), Lit(1)),
    assign(At("I", <<double_literal(1)>>), Lit(1)),
    Sequence(<<Let(n, At("I", <<Lit(3)>>)), assign(At("J", <<minus(V(n), Lit(1))>>), V(n)), assign(At("J", <<Lit(0)>>), V(n))>>),
    Sequence(<<Let(x, At("A", <<Lit(2)>>)), Binary("plus_assign", V(x), Lit(1)), assign(At("A", <<Lit(3)>>), V(x))>>),
    Sequence(<<Let(x, Lit(1)), assign(At("A", <<Lit(3)>>), V(x))>>),
    Sequence(<<Let(s, Odd), assign(At("J", <<Lit(0)>>), Of(V(s), <<Lit(1)>>))>>),
    Sequence(<<Let(n, construct_expr(integer, <<>>)), assign(V(n), Lit(3)), assign(At("J", <<V(n)>>), V(n))>>),
    Let(Decl("I"), construct_expr(array("integer", 1), <<Lit(4)>>)),
    Sequence(<<Let(truth, less(At("I", <<Lit(0)>>), Lit(2))), if_expr(<<V(truth), assign(At("J", <<Lit(0)>>), Lit(9))>>)>>),
    Let(truth, construct_expr(bool_, <<>>)), Let(n, construct_expr(bool_, <<>>)), Let(n, construct_expr(index, <<>>)),
    Let(truth, double_literal(1)), Let(truth, bool_literal(TRUE)),
    Loop(i, unary_operator_expr("negate", Lit(1)), Lit(2), Lit(1), assign(At("I", <<Lit(0)>>), Lit(9))),
    Loop(i, Lit(0), Lit(3), Lit(1), assign(At("I", <<V(i)>>), minus(V(i), Lit(1)))),
    Loop(i, Lit(0), Lit(3), Lit(1), Binary("plus_assign", At("I", <<V(i)>>), Lit(-4))),
    if_expr(<<less(minus(Lit(2), Lit(5)), Lit(0)), assign(At("I", <<Lit(0)>>), Lit(9))>>),
    Loop(i, Lit(0), double_literal(2), Lit(1), assign(At("J", <<V(i)>>), Lit(0))),
    Loop(i, Lit(0), Call("min", <<Extent("I", 0), Call("max", <<Lit(2), Lit(3)>>)>>), Lit(1),
        if_expr(<<Binary("equal_to", modulus(V(i), Lit(2)), Lit(0)), assign(At("J", <<V(i)>>), Lit(0)),
                  Sequence(<<assign(At("J", <<V(i)>>), V(i)), assign(At("I", <<V(i)>>), Call("delta", <<V(i), Lit(1)>>))>>)>>)),
    Loop(i, Lit(0), Lit(4), Lit(1),
        if_expr(<<less(At("I", <<V(i)>>), At("J", <<V(i)>>)), assign(At("A", <<V(i)>>), Lit(1)),
                  assign(At("A", <<V(i)>>), divides(At("A", <<V(i)>>), Lit(2)))>>)),
    Loop(i, Lit(0), At("J", <<Lit(1)>>), Lit(1), Sequence(<<assign(At("J", <<Lit(1)>>), Lit(1)), assign(At("I", <<V(i)>>), V(i))>>)),
    if_expr(<<less(At("I", <<Lit(0)>>), Lit(5)), Sequence(<<assign(At("I", <<Lit(0)>>), Lit(7)), assign(At("J", <<Lit(0)>>), Lit(7))>>)>>),
    assign(At("J", <<Lit(0)>>), subscription_expr(member_access_expr(
        variable_ref_expr(variable_declaration("S", 9, sparse_tensor("double"))), "shape"), <<Lit(0)>>))}

MCPrograms == {Function(b) : b \in Simple \cup Loops \cup Structured}
=============================================================================
