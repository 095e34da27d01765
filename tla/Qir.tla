-------------------------------- MODULE Qir --------------------------------
(***************************************************************************)
(* The intermediate representation (src/IR, src/qtl/IR): expression trees. *)
(* A node has a class tag; an operator, member or function name; a number  *)
(* (literal value or extent); the declarations it introduces or refers to; *)
(* a type; and its children in the order of child(0), child(1), ...  The   *)
(* parent pointer follows from the position.                               *)
(***************************************************************************)
EXTENDS Integers, Sequences
Seqs == INSTANCE SequencesExt

\* types::type: kind, element type and rank; the parameters of a scalar are
\* empty.
Type(kind, elem, rank) == [kind |-> kind, elem |-> elem, rank |-> rank]
Scalar(kind) == Type(kind, "", 0)
unknown == Scalar("unknown")
bool_ == Scalar("bool")
integer == Scalar("integer")
float_ == Scalar("float")
double_ == Scalar("double")
index == Scalar("index")
multi_index(rank) == Type("multi_index", "", rank)
array(elem, rank) == Type("array", elem, rank)
array_slice(elem, rank) == Type("array_slice", elem, rank)
integer_range_type == Scalar("integer_range")
\* The struct of the members data, itself a struct of four vectors, and shape.
sparse_tensor(elem) == Type("sparse_tensor", elem, 0)

\* Two declarations are the same if they are copies of one another: id stands
\* for the address of the shared implementation, name is what is printed.
variable_declaration(name, id, type) == [name |-> name, id |-> id, type |-> type]

Node(tag, name, num, decls, type, sub) ==
    [tag |-> tag, name |-> name, num |-> num, decls |-> decls, type |-> type, sub |-> sub]
Inner(tag, name, sub) == Node(tag, name, 0, <<>>, unknown, sub)
Literal(tag, value) == Node(tag, "", value, <<>>, unknown, <<>>)

----------------------------------------------------------------------------
(* One constructor per class.                                              *)

binary_operator_tags ==
    {"plus", "minus", "multiplies", "divides", "modulus", "div_floor", "assign", "plus_assign",
     "equal_to", "not_equal_to", "less", "greater", "less_equal", "greater_equal", "logical_and",
     "logical_or"}
binary_operator_expr(op, left, right) == Inner("binary_operator", op, <<left, right>>)
assign(left, right) == binary_operator_expr("assign", left, right)
plus_assign(left, right) == binary_operator_expr("plus_assign", left, right)
plus(left, right) == binary_operator_expr("plus", left, right)
multiplies(left, right) == binary_operator_expr("multiplies", left, right)
divides(left, right) == binary_operator_expr("divides", left, right)
modulus(left, right) == binary_operator_expr("modulus", left, right)

unary_operator_tags == {"nop", "plus", "negate", "logical_not"}
unary_operator_expr(op, arg) == Inner("unary_operator", op, <<arg>>)
integer_literal(value) == Literal("integer_literal", value)
double_literal(value) == Literal("double_literal", value)
float_literal(value) == Literal("float_literal", value)
bool_literal(value) == Literal("bool_literal", IF value THEN 1 ELSE 0)

compound_expr(order, body) == Inner("compound", order, body)
sequenced_tasks(body) == compound_expr("sequential", body)
\* The constructors without order or increment default to sequential and 1.
for_expr(order, idx, lower, upper, increment, body) ==
    Node("for", order, 0, <<idx>>, unknown, <<lower, upper, increment, body>>)
for_(idx, lower, upper, body) == for_expr("sequential", idx, lower, upper, integer_literal(1), body)
if_expr(branches) == Inner("if", "", branches)
local_variable_def_expr(decl, init) == Node("local_variable_def", "", 0, <<decl>>, unknown, <<init>>)
variable_ref_expr(decl) == Node("variable_ref", "", 0, <<decl>>, unknown, <<>>)
subscription_expr(indexed, indices) == Inner("subscription", "", <<indexed>> \o indices)
member_access_expr(object, member) == Inner("member_access", member, <<object>>)
integer_range_expr(lower, upper, stride) == Inner("integer_range", "", <<lower, upper, stride>>)
intrinsic_function_expr(name, args) == Inner("intrinsic_function", name, args)
type_conversion_expr(type, arg) == Node("type_conversion", "", 0, <<>>, type, <<arg>>)
construct_expr(type, params) == Node("construct", "", 0, <<>>, type, params)
macro_expr(params, body) == Node("macro", "", 0, params, unknown, <<body>>)

\* The classes of the tensor language.  The alias of a multi index is the last
\* declaration, marked by name.
object_expr(object, type) == Node("object", object, 0, <<>>, type, <<>>)
multi_index_expr(decl, elements) == Node("multi_index", "", 0, <<decl>> \o elements, unknown, <<>>)
kronecker_delta_expr(extent, first, second) ==
    Node("kronecker_delta", "", extent, <<>>, unknown, <<first, second>>)
sum_expr(indices, body) == Node("sum", "", 0, indices, unknown, <<body>>)
sum_with_alias(indices, alias, body) == Node("sum", "alias", 0, indices \o <<alias>>, unknown, <<body>>)
for_all_expr(indices, body) == Node("for_all", "", 0, indices, unknown, <<body>>)
for_all_with_alias(indices, alias, body) ==
    Node("for_all", "alias", 0, indices \o <<alias>>, unknown, <<body>>)

----------------------------------------------------------------------------
HasAlias(e) == e.name = "alias"
Indices(e) == IF HasAlias(e) THEN SubSeq(e.decls, 1, Len(e.decls) - 1) ELSE e.decls
Alias(e) == e.decls[Len(e.decls)]
is_access(e) == e.tag \in {"variable_ref", "subscription", "member_access", "object"}

\* child(i) for i < arity().  construct_expr answers every index with its first
\* parameter.
Children(e) == IF e.tag = "construct" THEN [i \in DOMAIN e.sub |-> e.sub[1]] ELSE e.sub

substitute_subexpressions(e, new) == [e EXCEPT !.sub = new]

\* The classes that init_equal (and the definitions in src/qtl/IR) register;
\* operator== falls back to false for the others.
Comparable ==
    {"binary_operator", "unary_operator", "float_literal", "double_literal", "integer_literal",
     "compound", "for", "intrinsic_function", "subscription", "type_conversion", "variable_ref",
     "sum", "for_all", "kronecker_delta"}

RECURSIVE Equal(_, _)
Equal(a, b) ==
    /\ a.tag = b.tag /\ a.tag \in Comparable
    /\ a.tag \in {"sum", "for_all"} \/ a.name = b.name  \* an alias does not count
    /\ a.num = b.num /\ Indices(a) = Indices(b) /\ a.type = b.type
    /\ Len(a.sub) = Len(b.sub)
    /\ \A i \in DOMAIN a.sub : Equal(a.sub[i], b.sub[i])
=============================================================================
