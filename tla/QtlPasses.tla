----------------------------- MODULE QtlPasses -----------------------------
(***************************************************************************)
(* The passes that turn a statement of the tensor language into loops      *)
(* (src/qtl/*_pass.cpp, sparse_patterns.cpp, lower_*.cpp).  Each pass is   *)
(* an operator on expressions.  A pass that makes new variables takes the  *)
(* identity of the next one and returns the one after.  An exception is    *)
(* the node Thrown somewhere in the result.                                *)
(***************************************************************************)
EXTENDS QirPatterns, FiniteSets

Thrown == Node("thrown", "", 0, <<>>, unknown, <<>>)
Throws(e) == search(e, <<NodePattern("thrown", <<>>)>>).case # 0

for_all_pattern(idx, body) == for_all_multi(sequence(<<idx>>), body)
sum_pattern(body, idx) == sum_multi(body, sequence(<<idx>>))
assign_pattern(lhs, rhs) == binary_operator_pattern(value("assign"), lhs, rhs)
for_all(decl, body) == for_all_expr(<<decl>>, body)
sum(decl, body) == sum_expr(<<decl>>, body)
var(decl) == variable_ref_expr(decl)

----------------------------------------------------------------------------
(* unique_variable_generator: the names it has given out, and the identity *)
(* of the next declaration anywhere.                                       *)

var_gen(next) == [reserved |-> {}, next |-> next]

FreshName(reserved, hint) ==
    LET taken(i) == (hint \o ToString(i)) \in reserved
        first == CHOOSE i \in 0 .. Cardinality(reserved) : ~taken(i) /\ \A k \in 0 .. (i - 1) : taken(k)
    IN  hint \o ToString(first)
Created(gen, type, name) == [decl |-> variable_declaration(name, gen.next, type),
                             gen |-> [reserved |-> gen.reserved \cup {name}, next |-> gen.next + 1]]
create_new_variable(gen, type, hint) == Created(gen, type, FreshName(gen.reserved, hint))

----------------------------------------------------------------------------
\* Objects that a statement mentions become parameters.  The parameter map is
\* shared by the statements of a kernel, the generator is not.
Extracted(e, map, new) == Becomes(var(new.decl), [map |-> Append(map, [decl |-> new.decl, object |-> e.name]), gen |-> new.gen])
extract_objects(expr, parameter_map, next) ==
    LET known(e, map) == {k \in DOMAIN map : map[k].object = e.name}
        Extract(e, st) ==
            IF e.tag # "object" THEN Becomes(e, st)
            ELSE IF known(e, st.map) # {} THEN Becomes(var(st.map[CHOOSE k \in known(e, st.map) : TRUE].decl), st)
            ELSE Extracted(e, st.map, create_new_variable(st.gen, e.type, "obj"))
        result(r) == [e |-> r.e, map |-> r.st.map, next |-> r.st.gen.next]
    IN  result(substitute(expr, [map |-> parameter_map, gen |-> var_gen(next)], Extract))

\* The loops over the indices of the left-hand side, the first one outermost.
LoopOver(c) ==
    CASE c.case = 0 -> Thrown
      [] c.case = 1 -> for_all(c.env["index"], Thrown)
      [] c.case = 2 -> for_all_with_alias(c.env["elements"], c.env["index"], Thrown)
LoopsOver(indices) ==
    LET cases == <<variable_ref_pattern(variable("index")),
                   captured_multi_index_pattern(variable("index"), variable("elements"))>>
    IN  [k \in DOMAIN indices |-> LoopOver(try_match(indices[k], cases))]
WrapIn(loops, expr) ==
    LET first(k) == \A l \in 1 .. (k - 1) : loops[l].decls # loops[k].decls
        Wrap[k \in 0 .. Len(loops)] ==
            IF k = 0 THEN expr
            ELSE LET at == Len(loops) + 1 - k
                 IN  IF first(at) THEN [loops[at] EXCEPT !.sub = <<Wrap[k - 1]>>] ELSE Wrap[k - 1]
        Release(e, st) == Becomes(IF e.tag = "multi_index" THEN var(e.decls[1]) ELSE e, st)
    IN  IF \E k \in DOMAIN loops : loops[k] = Thrown THEN Thrown
        ELSE substitute(Wrap[Len(loops)], {}, Release).e
legalize_expression(expr) ==
    LET legalized(m) == IF m.case = 0 THEN Thrown ELSE WrapIn(LoopsOver(m.env["indices"]), expr)
    IN  legalized(try_match(expr, <<assign_pattern(subscription_pattern(any, variable("indices")), any)>>))

\* A multi index becomes its elements, and a loop or sum over one becomes one
\* per element, the last one outermost.
expand_multi_indices(expr) ==
    LET Elements(m, e, map) ==
            IF m.case = 0 THEN <<e>>
            ELSE IF m.env["decl"] \notin DOMAIN map THEN <<Thrown>>
            ELSE [k \in DOMAIN map[m.env["decl"]] |-> var(map[m.env["decl"]][k])]
        Subscripts(es, map) ==
            Seqs!FoldLeft(LAMBDA done, e : done \o Elements(try_match(e, <<multi_index_pattern(variable("decl"))>>), e, map),
                          <<>>, es)
        Nest(e, decls) ==
            Seqs!FoldLeft(LAMBDA body, decl : Node(e.tag, "", 0, <<decl>>, unknown, <<body>>), e.sub[1], decls)
        Expand(e, map) ==
            CASE e.tag = "subscription" /\ is_access(e.sub[1]) ->
                   Becomes(subscription_expr(e.sub[1], Subscripts(Tail(e.sub), map)), map)
              [] e.tag \in {"for_all", "sum"} ->
                   Becomes(Nest(e, Indices(e)), IF HasAlias(e) THEN Bind(map, Alias(e), Indices(e)) ELSE map)
              [] OTHER -> Becomes(e, map)
    IN  substitute(expr, Unbound, Expand).e

----------------------------------------------------------------------------
(* fold_kronecker_deltas                                                   *)

delta_pattern(first, second) == kronecker_delta_pattern(any, first, second)

make_bubble(first, second) == IF first.id < second.id THEN <<first, second>> ELSE <<second, first>>

\* The pairs of indices whose delta is a factor of the whole expression.
RECURSIVE collect_bubbles(_)
BubblesOf(m) ==
    LET of(x) == collect_bubbles(m.env[x])
        bound(bubble) == \E k \in DOMAIN m.env["indices"] : m.env["indices"][k] \in {bubble[1], bubble[2]}
        occurs(bubble, bubbles) == \E k \in DOMAIN bubbles : bubbles[k] = bubble
    IN  CASE m.case = 0 -> <<>>
          [] m.case = 1 -> SelectSeq(of("a"), LAMBDA bubble : ~bound(bubble))
          [] m.case = 2 -> SelectSeq(of("a"), LAMBDA bubble : occurs(bubble, of("b")))
          [] m.case = 3 -> of("a")
          [] m.case = 4 -> of("a") \o of("b")
          [] m.case = 5 -> IF m.env["i"] # m.env["j"] THEN <<make_bubble(m.env["i"], m.env["j"])>> ELSE <<>>
collect_bubbles(expr) ==
    BubblesOf(try_match(expr, <<
        sum_multi(variable("a"), variable("indices")),
        binary_operator_pattern(or_pattern(value("plus"), value("minus")), variable("a"), variable("b")),
        binary_operator_pattern(value("divides"), variable("a"), any),
        binary_operator_pattern(value("multiplies"), variable("a"), variable("b")),
        delta_pattern(index_pattern(variable("i")), index_pattern(variable("j")))>>))

\* A mutant: always the second index of the bubble.
SecondOfBubble(idx, bubbles) ==
    LET hits == SelectSeq(bubbles, LAMBDA bubble : idx \in {bubble[1], bubble[2]})
    IN  IF hits = <<>> THEN <<>> ELSE <<Head(hits)[2]>>
contains_bubble_with_index(idx, bubbles) ==
    LET hits == SelectSeq(bubbles, LAMBDA bubble : idx \in {bubble[1], bubble[2]})
    IN  IF hits = <<>> THEN <<>>
        ELSE IF Head(hits)[1] = idx THEN <<Head(hits)[2]>> ELSE <<Head(hits)[1]>>

eliminate_trivial_deltas(expr) ==
    LET trivial == delta_pattern(index_pattern(variable("i")), index_pattern(variable("i")))
        Eliminate(e, st) == Becomes(IF Match(trivial, e, Unbound).ok THEN integer_literal(1) ELSE e, st)
    IN  substitute(expr, {}, Eliminate).e

substitute_index(expr, idx, new) ==
    LET Exchange(e, st) == Becomes(IF Match(index_pattern(value(idx)), e, Unbound).ok THEN new ELSE e, st)
    IN  substitute(expr, {}, Exchange).e

\* A sum over an index that a delta equates with another one disappears.
FoldIndices(e, bubbles) ==
    LET other(idx) == contains_bubble_with_index(idx, bubbles)
        step(body, idx) == IF other(idx) = <<>> THEN body
                           ELSE eliminate_trivial_deltas(substitute_index(body, idx, var(other(idx)[1])))
        sum_over(indices, body) == IF indices = <<>> THEN body ELSE sum_expr(indices, body)
    IN  sum_over(SelectSeq(Indices(e), LAMBDA idx : other(idx) = <<>>), Seqs!FoldLeft(step, e.sub[1], Indices(e)))
fold_kronecker_deltas(expr) ==
    LET Fold(e, st) == Becomes(IF e.tag = "sum" THEN FoldIndices(e, collect_bubbles(e.sub[1])) ELSE e, st)
    IN  substitute(expr, {}, Fold).e

----------------------------------------------------------------------------
\* The bounds of an index: the extent of the first array subscripted by it, or
\* that of a delta.
SpaceOf(m) ==
    CASE m.case = 0 -> <<Thrown, Thrown>>
      [] m.case = 1 ->
           <<integer_literal(0),
             intrinsic_function_expr("extent", <<m.env["array"], integer_literal(m.env["index_pos"])>>)>>
      [] m.case = 2 -> <<integer_literal(0), integer_literal(m.env["extent"])>>
deduce_iteration_space(idx, expr) ==
    LET at == index_pattern(value(idx))
    IN  SpaceOf(search(expr, <<
            subscription_pattern(variable("array"), bind_to(any_of(at), "index_pos")),
            or_pattern(kronecker_delta_pattern(variable("extent"), at, any),
                       kronecker_delta_pattern(variable("extent"), any, at))>>))

----------------------------------------------------------------------------
(* optimize_sparse_patterns: an assignment of a sum with one sparse factor *)
(* becomes loops over the blocks of its storage.                           *)

block_width == 4

\* expand_macro: the parameters are replaced one after the other.
expand_macro(macro, args) ==
    LET step(expr, k) ==
            LET Expand(e, st) == Becomes(IF e.tag = "variable_ref" /\ e.decls[1] = macro.decls[k] THEN args[k] ELSE e, st)
            IN  substitute(expr, {}, Expand).e
    IN  Seqs!FoldLeft(step, macro.sub[1], [k \in DOMAIN args |-> k])

\* New variables for hints, in order.
create_new_variables(gen, type, hints) ==
    LET also(made, new) == [decls |-> Append(made.decls, new.decl), gen |-> new.gen]
    IN  Seqs!FoldLeft(LAMBDA made, hint : also(made, create_new_variable(made.gen, type, hint)),
                      [decls |-> <<>>, gen |-> gen], hints)

\* Loops around a body, each with its bounds; the last of the indices is the
\* outermost.
LoopNest(body, idx, bounds) ==
    Seqs!FoldLeft(LAMBDA inner, k : for_(idx[k], bounds[k][1], bounds[k][2], inner), body, [k \in DOMAIN idx |-> k])

\* The analysis of an expression, step by step: the loops around the definition,
\* the sums of its right-hand side, the one sparse tensor below the last of them.
Invalid == [valid |-> FALSE]
SparseTensorIn(lhs, found, body, tensors) ==
    LET sparse == tensors[1]["indices"]
        dense == SelectSeq(found, LAMBDA idx : \A k \in DOMAIN sparse : sparse[k] # idx)
    IN  IF Len(tensors) # 1 THEN Invalid
        ELSE [valid |-> TRUE, lhs |-> lhs, body |-> body, the_sparse_tensor |-> tensors[1]["var"],
              sparse_indices |-> sparse, dense_indices |-> dense]
IndicesOf(ms) == [k \in DOMAIN ms |-> ms[k]["idx"]]
SumsIn(lhs, outer, sums) ==
    LET body == sums[Len(sums)]["body"]
        pattern == subscription_pattern(sparse_tensor_pattern(variable("var")), bind_to(all_of(index_pattern(any)), "indices"))
    IN  IF sums = <<>> THEN Invalid
        ELSE SparseTensorIn(lhs, IndicesOf(outer) \o IndicesOf(sums), body, for_each(body, pattern))
DefinitionIn(outer, def) ==
    IF ~def.ok THEN Invalid
    ELSE SumsIn(def.env["lhs"], outer, for_each(def.env["rhs"], sum_pattern(variable("body"), variable("idx"))))
simple_sparse_pattern_analysis(expr) ==
    LET below(outer) == IF outer = <<>> THEN expr ELSE outer[Len(outer)]["body"]
        analysis(outer) == DefinitionIn(outer, Match(assign_pattern(variable("lhs"), variable("rhs")), below(outer), Unbound))
    IN  analysis(for_each(expr, for_all_pattern(variable("idx"), variable("body"))))

InitPart(lhs, m, new) ==
    LET indices == m.env["indices"]
        n == Len(indices)
        flipped == [k \in 1 .. n |-> n + 1 - k]
        zero == assign(subscription_expr(var(m.env["var"]), [k \in 1 .. n |-> var(new.decls[k])]), integer_literal(0))
    IN  [e |-> LoopNest(zero, [k \in 1 .. n |-> new.decls[flipped[k]]],
                        [k \in 1 .. n |-> deduce_iteration_space(indices[flipped[k]], lhs)]),
         gen |-> new.gen]
generate_init_part(lhs, gen) ==
    LET part(m) == IF ~m.ok THEN [e |-> Thrown, gen |-> gen]
                   ELSE InitPart(lhs, m, create_new_variables(gen, integer, [k \in DOMAIN m.env["indices"] |-> "var"]))
    IN  part(Match(subscription_pattern(variable_ref_pattern(variable("var")),
                                        bind_to(all_of(index_pattern(any)), "indices")), lhs, Unbound))

\* The loops, from the outside: the sparse indices but the last two, the dense
\* indices, the rows by blocks (i), the depth of the block (j) and the rows of
\* the block (ii).  The remainder does the rows of a last block that is not full.
Width == integer_literal(block_width)
BlockLoops(tensor, kind, i, ii, j, body) ==
    LET extent == subscription_expr(member_access_expr(var(tensor), "shape"), <<integer_literal(0)>>)
        rounded == multiplies(divides(extent, Width), Width)
        full == kind = "vectorizable"
        rows == for_(ii, integer_literal(0), IF full THEN Width ELSE modulus(extent, Width), body)
        cl == member_access_expr(member_access_expr(var(tensor), "data"), "cl")
        depth == for_(j, integer_literal(0), subscription_expr(cl, <<divides(var(i), Width)>>), rows)
    IN  for_expr("sequential", i, IF full THEN integer_literal(0) ELSE rounded, IF full THEN rounded ELSE extent, Width, depth)

\* The position of an element in the storage, and what stands for each index;
\* emplace keeps an entry that is already there.
StoragePosition(data, extra_vars, i, ii, j) ==
    LET linearized == Seqs!FoldLeft(LAMBDA sum_, x : plus(multiplies(sum_, integer_literal(16)), var(x)),
                                    integer_literal(0), Append(extra_vars, i))
        start == subscription_expr(member_access_expr(data, "cs"), <<divides(linearized, Width)>>)
    IN  plus(plus(start, multiplies(var(j), Width)), var(ii))
VariableOf(indices, decls) ==
    [x \in {indices[k] : k \in DOMAIN indices} |-> var(decls[CHOOSE k \in DOMAIN indices : indices[k] = x])]
IndexMap(dense, dense_vars, extra, extra_vars, sparse, row, col) ==
    VariableOf(dense, dense_vars) @@ VariableOf(extra, extra_vars)
    @@ (sparse[Len(sparse) - 1] :> row) @@ (sparse[Len(sparse)] :> col)
\* The body on the storage of the tensor.
StoredBody(current, tensor, data, position, index_map) ==
    LET sparse_access == subscription_pattern(sparse_tensor_pattern(value(tensor)), any)
        Stored(e, st) ==
            Becomes(IF Match(sparse_access, e, Unbound).ok
                    THEN subscription_expr(member_access_expr(data, "val"), <<position>>) ELSE e, st)
        Mapped(e, st) ==
            Becomes(IF ~Match(index_pattern(any), e, Unbound).ok THEN e
                    ELSE IF e.decls[1] \in DOMAIN index_map THEN index_map[e.decls[1]] ELSE Thrown, st)
    IN  substitute(substitute(current, {}, Stored).e, {}, Mapped).e
ComputationalPart(current, tensor, dense, sparse, kind, i, ii, j, vars_, next) ==
    LET extra == SubSeq(sparse, 1, Len(sparse) - 2)
        dense_vars == SubSeq(vars_, 1, Len(dense))
        extra_vars == SubSeq(vars_, Len(dense) + 1, Len(vars_))
        data == member_access_expr(var(tensor), "data")
        new_body == variable_declaration("new_body", next, unknown)
        skeleton == LoopNest(BlockLoops(tensor, kind, i, ii, j, var(new_body)), dense_vars \o extra_vars,
                             [k \in DOMAIN dense |-> deduce_iteration_space(dense[k], current)]
                             \o [k \in DOMAIN extra |-> <<integer_literal(0), integer_literal(16)>>])
        body(position) ==
            StoredBody(current, tensor, data, position,
                       IndexMap(dense, dense_vars, extra, extra_vars, sparse, plus(var(i), var(ii)),
                                subscription_expr(member_access_expr(data, "col"), <<position>>)))
    IN  expand_macro(macro_expr(<<new_body>>, skeleton), <<body(StoragePosition(data, extra_vars, i, ii, j))>>)
generate_computational_part(current, analysis, kind, gen) ==
    LET dense == analysis.dense_indices
        sparse == analysis.sparse_indices
        part(new) == [e |-> ComputationalPart(current, analysis.the_sparse_tensor, dense, sparse, kind,
                                              new.decls[1], new.decls[2], new.decls[3],
                                              SubSeq(new.decls, 4, Len(new.decls)), new.gen.next),
                      gen |-> [new.gen EXCEPT !.next = @ + 1]]
    IN  part(create_new_variables(gen, integer,
                 <<"i", "ii", "j">> \o [k \in 1 .. (Len(dense) + Len(sparse) - 2) |-> "idx"]))

lower_sparse_contraction(expr, next) ==
    LET kinds == <<"vectorizable", "remainder">>
        also(done, part) == [tasks |-> Append(done.tasks, part.e), gen |-> part.gen]
        init(part) == [tasks |-> <<part.e>>, gen |-> part.gen]
        result(done) == [e |-> sequenced_tasks(done.tasks), next |-> done.gen.next]
        lowered(analysis) ==
            IF ~analysis.valid THEN [e |-> expr, next |-> next]
            ELSE result(Seqs!FoldLeft(
                     LAMBDA done, kind : also(done, generate_computational_part(
                                                        plus_assign(analysis.lhs, analysis.body), analysis, kind, done.gen)),
                     init(generate_init_part(analysis.lhs, var_gen(next))), kinds))
    IN  lowered(simple_sparse_pattern_analysis(expr))
optimize_sparse_patterns(expr, next) == lower_sparse_contraction(expr, next)

----------------------------------------------------------------------------
RECURSIVE remove_top_level_sums(_, _), lower_top_level_sums(_)

\* The indices of the sums, and the expression below them.
BelowSum(m, expr, indices) ==
    IF m.case = 0 THEN [e |-> expr, indices |-> indices]
    ELSE remove_top_level_sums(m.env["body"], Append(indices, m.env["index"]))
remove_top_level_sums(expr, indices) ==
    BelowSum(try_match(expr, <<sum_pattern(variable("body"), variable("index"))>>), expr, indices)

\* The target is set to zero, then the terms are added.
Accumulation(a, body) ==
    LET n == Len(body.indices)
        flipped == [k \in 1 .. n |-> body.indices[n + 1 - k]]
    IN  sequenced_tasks(<<assign(a, double_literal(0)),
            Seqs!FoldLeft(LAMBDA inner, idx : for_all(idx, inner), plus_assign(a, body.e), flipped)>>)
LoweredCase(m, expr) ==
    LET lowered(x) == lower_top_level_sums(m.env[x])
    IN  CASE m.case = 0 -> expr
          [] m.case = 1 -> for_all(m.env["idx"], lowered("b"))
          [] m.case = 2 -> for_(m.env["idx"], m.env["b"], m.env["c"], lowered("d"))
          [] m.case = 3 -> sequenced_tasks([k \in DOMAIN m.env["sub_exprs"] |->
                                                lower_top_level_sums(m.env["sub_exprs"][k])])
          [] m.case = 4 -> Accumulation(m.env["a"], remove_top_level_sums(m.env["s"], <<>>))
lower_top_level_sums(expr) ==
    LoweredCase(try_match(expr, <<
        for_all_pattern(variable("idx"), variable("b")),
        for_pattern(any, variable("idx"), variable("b"), variable("c"),
                    literal_pattern("integer_literal", value(1)), variable("d")),
        compound_pattern(any, variable("sub_exprs")),
        assign_pattern(variable("a"), bind_to(sum_pattern(any, any), "s"))>>), expr)

\* Every loop over an index becomes one over an integer variable.
lower_abstract_indices(expr, next) ==
    LET Loop(new, decl, body, bounds) ==
            Becomes(for_(new.decl, bounds[1], bounds[2], substitute_index(body, decl, var(new.decl))), new.gen)
        LoopOf(m, e, gen) ==
            IF ~m.ok THEN Becomes(e, gen)
            ELSE Loop(create_new_variable(gen, integer, m.env["decl"].name), m.env["decl"], m.env["body"],
                      deduce_iteration_space(m.env["decl"], m.env["body"]))
        Lower(e, gen) == LoopOf(Match(for_all_pattern(variable("decl"), variable("body")), e, Unbound), e, gen)
        Fixup(e, st) == Becomes(IF e.tag = "kronecker_delta" THEN intrinsic_function_expr("delta", e.sub) ELSE e, st)
        result(lowered) == [e |-> substitute(lowered.e, {}, Fixup).e, next |-> lowered.st.next]
    IN  result(substitute(expr, var_gen(next), Lower))
=============================================================================
