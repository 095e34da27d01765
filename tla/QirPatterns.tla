---------------------------- MODULE QirPatterns ----------------------------
(***************************************************************************)
(* The pattern language (include/qubus/pattern, qtl/pattern).  A pattern   *)
(* is data; Match says whether a value matches, how the pattern variables  *)
(* are bound then, and what the pattern reports to a surrounding bind_to.  *)
(* The bindings a failing match has already made stay until somebody       *)
(* resets them, as in the code: a case of a matcher does, || and any_of do *)
(* not.                                                                    *)
(***************************************************************************)
EXTENDS Qir, TLC

Unbound == <<>>

any == [kind |-> "any"]
value(v) == [kind |-> "value", value |-> v]
\* A variable of a declaration, tag or sequence, and one of an expression,
\* which is compared with the operator== of expressions.
variable(name) == [kind |-> "variable", name |-> name]
expr_variable(name) == [kind |-> "expr_variable", name |-> name]
or_pattern(lhs, rhs) == [kind |-> "or", sub |-> <<lhs, rhs>>]
any_of(pattern) == [kind |-> "any_of", sub |-> <<pattern>>]
all_of(pattern) == [kind |-> "all_of", sub |-> <<pattern>>]
sequence(patterns) == [kind |-> "sequence", sub |-> patterns]
bind_to(pattern, name) == [kind |-> "bind_to", name |-> name, sub |-> <<pattern>>]
protect(pattern) == pattern
contains(pattern) == [kind |-> "contains", sub |-> <<pattern>>]
tuple(patterns) == [kind |-> "sequence", sub |-> patterns]

\* A pattern of a node class has one pattern for each field that the match
\* function of the class looks at.
NodePattern(tag, fields) == [kind |-> "node", tag |-> tag, sub |-> fields]

binary_operator_pattern(op, lhs, rhs) == NodePattern("binary_operator", <<op, lhs, rhs>>)
unary_operator_pattern(op, arg) == NodePattern("unary_operator", <<op, arg>>)
compound_pattern(order, body) == NodePattern("compound", <<order, body>>)
for_pattern(order, idx, lower, upper, inc, body) ==
    NodePattern("for", <<order, idx, lower, upper, inc, body>>)
if_pattern(condition, then_branch, else_branch) ==
    NodePattern("if", <<condition, then_branch, else_branch>>)
local_variable_def_pattern(decl, init) == NodePattern("local_variable_def", <<decl, init>>)
variable_ref_pattern(decl) == NodePattern("variable_ref", <<decl>>)
subscription_pattern(indexed, indices) == NodePattern("subscription", <<indexed, indices>>)
member_access_pattern(object, member) == NodePattern("member_access", <<member, object>>)
integer_range_pattern(lower, upper, stride) == NodePattern("integer_range", <<lower, upper, stride>>)
intrinsic_function_pattern(name, args) == NodePattern("intrinsic_function", <<name, args>>)
type_conversion_pattern(type, arg) == NodePattern("type_conversion", <<type, arg>>)
construct_pattern(type, params) == NodePattern("construct", <<type, params>>)
literal_pattern(tag, val) == NodePattern(tag, <<val>>)
macro_pattern(params, body) == NodePattern("macro", <<params, body>>)
access_pattern == [kind |-> "access"]
variable_scope(decl, scope) == for_pattern(any, decl, any, any, any, scope)
primitive_type_pattern(kind) == [kind |-> "type", type |-> kind]

object_pattern(object) == NodePattern("object", <<object>>)
captured_multi_index_pattern(decl, elements) == NodePattern("multi_index", <<decl, elements>>)
kronecker_delta_pattern(extent, first, second) == NodePattern("kronecker_delta", <<extent, first, second>>)
\* sum_multi matches the body before the indices, for_all_multi after them.
sum_multi(body, indices) == NodePattern("sum", <<body, indices>>)
sum_multi_alias(body, indices, alias) ==
    [kind |-> "aliased", tag |-> "sum", sub |-> <<body, alias, indices>>]
for_all_multi(indices, body) == NodePattern("for_all", <<indices, body>>)
for_all_multi_alias(indices, alias, body) ==
    [kind |-> "aliased", tag |-> "for_all", sub |-> <<indices, alias, body>>]
\* A variable_ref whose declaration has a type of this kind; index() reports
\* the declaration.
index_pattern(decl) == [kind |-> "typed_ref", type |-> "index", sub |-> <<decl>>]
multi_index_pattern(decl) == [kind |-> "typed_ref", type |-> "multi_index", sub |-> <<decl>>]
tensor_pattern(decl) == [kind |-> "typed_ref", type |-> "array", sub |-> <<decl>>]
sparse_tensor_pattern(decl) == [kind |-> "typed_ref", type |-> "sparse_tensor", sub |-> <<decl>>]

\* The accessors of the classes, in the order in which the patterns try them.
Fields(e) ==
    CASE e.tag \in {"binary_operator", "unary_operator"} -> <<e.name>> \o e.sub
      [] e.tag \in {"compound", "intrinsic_function"} -> <<e.name, e.sub>>
      [] e.tag = "for" -> <<e.name, e.decls[1]>> \o e.sub
      [] e.tag = "if" -> e.sub
      [] e.tag = "local_variable_def" -> <<e.decls[1], e.sub[1]>>
      [] e.tag = "variable_ref" -> <<e.decls[1]>>
      [] e.tag = "subscription" -> <<e.sub[1], Tail(e.sub)>>
      [] e.tag = "member_access" -> <<e.name, e.sub[1]>>
      [] e.tag = "integer_range" -> e.sub
      [] e.tag = "type_conversion" -> <<e.type, e.sub[1]>>
      [] e.tag = "construct" -> <<e.type, e.sub>>
      [] e.tag = "macro" -> <<e.decls, e.sub[1]>>
      [] e.tag = "object" -> <<e.name>>
      [] e.tag = "multi_index" -> <<e.decls[1], Tail(e.decls)>>
      [] e.tag = "kronecker_delta" -> <<e.num>> \o e.sub
      [] e.tag = "sum" -> <<e.sub[1], Indices(e)>>
      [] e.tag = "for_all" -> <<Indices(e), e.sub[1]>>
      [] OTHER -> <<e.num>>
FieldsWithAlias(e) ==
    IF e.tag = "sum" THEN <<e.sub[1], Alias(e), Indices(e)>> ELSE <<Indices(e), Alias(e), e.sub[1]>>

----------------------------------------------------------------------------
Matched(env, out) == [ok |-> TRUE, env |-> env, out |-> out]
Failed(env) == [ok |-> FALSE, env |-> env]
Bind(env, name, v) == (name :> v) @@ env
\* reset() of the variables that a pattern mentions.
RECURSIVE Variables(_)
Variables(p) ==
    (IF p.kind \in {"variable", "expr_variable", "bind_to"} THEN {p.name} ELSE {}) \cup
    (IF "sub" \in DOMAIN p THEN UNION {Variables(p.sub[i]) : i \in DOMAIN p.sub} ELSE {})
Reset(env, p) == [x \in (DOMAIN env) \ Variables(p) |-> env[x]]

\* A match reports something else, binds what it reports, or is one of a list.
Reporting(m, out) == IF m.ok THEN Matched(m.env, out) ELSE m
Binding(m, name) == IF m.ok THEN Matched(Bind(m.env, name, m.out), m.out) ELSE m
Collecting(m, p, outs) == IF m.ok THEN Matched(Reset(m.env, p), Append(outs, m.out)) ELSE m

RECURSIVE Match(_, _, _), MatchFields(_, _, _, _), MatchFirst(_, _, _, _), MatchEach(_, _, _),
          Contains(_, _, _), ContainsIn(_, _, _, _)

\* m is what has been matched before.
MatchFields(ps, vs, i, m) ==
    IF ~m.ok \/ i > Len(ps) THEN m ELSE MatchFields(ps, vs, i + 1, Match(ps[i], vs[i], m.env))

\* any_of reports the position of the first match, from 0.
MatchFirst(p, vs, i, m) ==
    IF m.ok \/ i > Len(vs) THEN m ELSE MatchFirst(p, vs, i + 1, Reporting(Match(p, vs[i], m.env), i - 1))

\* all_of reports what its pattern reports of each element.
MatchEach(p, vs, m) ==
    IF ~m.ok \/ vs = <<>> THEN m ELSE MatchEach(p, Tail(vs), Collecting(Match(p, Head(vs), m.env), p, m.out))

OrElse(m, p, v) == IF m.ok THEN m ELSE Match(p, v, m.env)

Match(p, v, env) ==
    CASE p.kind = "any" -> Matched(env, v)
      [] p.kind = "value" -> IF v = p.value THEN Matched(env, v) ELSE Failed(env)
      [] p.kind = "variable" ->
           IF p.name \in DOMAIN env /\ env[p.name] # v THEN Failed(env)
           ELSE Matched(Bind(env, p.name, v), v)
      [] p.kind = "expr_variable" ->
           IF p.name \in DOMAIN env /\ ~Equal(env[p.name], v) THEN Failed(env)
           ELSE Matched(Bind(env, p.name, v), v)
      [] p.kind = "or" -> Reporting(OrElse(Match(p.sub[1], v, env), p.sub[2], v), v)
      [] p.kind = "any_of" -> MatchFirst(p.sub[1], v, 1, Failed(env))
      [] p.kind = "all_of" -> MatchEach(p.sub[1], v, Matched(env, <<>>))
      [] p.kind = "sequence" ->
           IF Len(p.sub) # Len(v) THEN Failed(env)
           ELSE Reporting(MatchFields(p.sub, v, 1, Matched(env, <<>>)), v)
      [] p.kind = "bind_to" -> Binding(Match(p.sub[1], v, env), p.name)
      [] p.kind = "contains" -> Reporting(Contains(p.sub[1], v, env), v)
      [] p.kind = "access" -> IF is_access(v) THEN Matched(env, v) ELSE Failed(env)
      [] p.kind = "type" -> IF v.kind = p.type THEN Matched(env, v) ELSE Failed(env)
      [] p.kind = "typed_ref" ->
           IF v.tag # "variable_ref" THEN Failed(env)
           ELSE IF v.decls[1].type.kind # p.type THEN Failed(env)
           ELSE Reporting(Match(p.sub[1], v.decls[1], env), v.decls[1])
      [] p.kind = "node" ->
           IF v.tag # p.tag THEN Failed(env)
           ELSE Reporting(MatchFields(p.sub, Fields(v), 1, Matched(env, <<>>)), v)
      [] p.kind = "aliased" ->
           IF v.tag # p.tag \/ ~HasAlias(v) THEN Failed(env)
           ELSE Reporting(MatchFields(p.sub, FieldsWithAlias(v), 1, Matched(env, <<>>)), v)

Contains(p, e, env) == ContainsIn(p, Children(e), 1, Match(p, e, env))
ContainsIn(p, es, i, m) ==
    IF m.ok \/ i > Len(es) THEN m ELSE ContainsIn(p, es, i + 1, Contains(p, es[i], m.env))

----------------------------------------------------------------------------
\* The first case, of a sequence of patterns, that matches: its position and
\* the bindings, or 0.  A case that fails is reset, so each starts unbound.
RECURSIVE TryFrom(_, _, _, _)
TryFrom(e, cases, i, m) ==
    IF m.ok THEN [case |-> i, env |-> m.env]
    ELSE IF i = Len(cases) THEN [case |-> 0, env |-> Unbound]
    ELSE TryFrom(e, cases, i + 1, Match(cases[i + 1], e, Unbound))
try_match(e, cases) == TryFrom(e, cases, 0, Failed(Unbound))

\* All matches of a pattern in the order of for_each: a node before its children.
Hits(m) == IF m.ok THEN <<m.env>> ELSE <<>>
RECURSIVE for_each(_, _), ForEachChild(_, _, _)
for_each(e, p) == Hits(Match(p, e, Unbound)) \o ForEachChild(Children(e), p, 1)
ForEachChild(es, p, i) ==
    IF i > Len(es) THEN <<>> ELSE for_each(es[i], p) \o ForEachChild(es, p, i + 1)

\* search: the case and bindings of the first node, in the same order, that
\* some case matches.
RECURSIVE search(_, _), SearchIn(_, _, _, _)
search(e, cases) == SearchIn(Children(e), cases, 1, try_match(e, cases))
SearchIn(es, cases, i, m) ==
    IF m.case # 0 \/ i > Len(es) THEN m ELSE SearchIn(es, cases, i + 1, search(es[i], cases))

\* substitute: Rewrite(e, st) is what e becomes and the state that the actions
\* of the matcher share.  The children of the replacement, not those of the
\* original, are substituted next.
Becomes(e, st) == [e |-> e, st |-> st]
Rebuilt(e, kids) == Becomes(substitute_subexpressions(e, kids.es), kids.st)
Also(kids, r) == [es |-> Append(kids.es, r.e), st |-> r.st]
substitute(expr, state, Rewrite(_, _)) ==
    LET RECURSIVE Below(_), SubAll(_, _, _)
        Below(r) == Rebuilt(r.e, SubAll(Children(r.e), 1, [es |-> <<>>, st |-> r.st]))
        SubAll(es, i, kids) ==
            IF i > Len(es) THEN kids ELSE SubAll(es, i + 1, Also(kids, Below(Rewrite(es[i], kids.st))))
    IN  Below(Rewrite(expr, state))
=============================================================================
