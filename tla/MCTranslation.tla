-------------------------- MODULE MCTranslation --------------------------
(***************************************************************************)
(* Small kernels for Translation: one or two statements over vectors,      *)
(* matrices, a tensor of rank three and a sparse matrix of five rows (a    *)
(* full block and a remainder), given as parameters or as objects.         *)
(***************************************************************************)
EXTENDS Translation

Dense(shape, seed) == Array(shape, LAMBDA p : LET n == Sum([d \in DOMAIN p |-> Defined((d + 1) * p[d])])
                                              IN  Defined(((The(n) + seed) % 5) + 1))
Nonzeros == add_nonzero(add_nonzero(add_nonzero(add_nonzero(add_nonzero(add_nonzero(
                assembly_tensor(5), 0, 2, 3), 0, 0, 1), 2, 1, 2), 2, 1, 2), 4, 2, 5), 3, 0, 7)
Shapes == [x |-> <<2>>, z |-> <<2>>, w |-> <<2>>, y |-> <<3>>, v |-> <<5>>, u |-> <<5>>,
           M |-> <<2, 3>>, N |-> <<3, 2>>, Q |-> <<2, 2>>, V |-> <<5, 2>>, T |-> <<2, 3, 2>>]
Seeds == [x |-> 1, z |-> 2, w |-> 0, y |-> 3, v |-> 4, u |-> 2, M |-> 1, N |-> 2, Q |-> 3, V |-> 0, T |-> 4]
MCObjects == [o \in DOMAIN Shapes |-> Dense(Shapes[o], Seeds[o])]
             @@ [S |-> sparse_tensor_object(Nonzeros, <<5, 3>>)]

\* Parameters are all called tensor; they stand for the objects in this order.
ParameterOrder == <<"N", "x", "S", "z", "w", "y", "v", "u", "M", "Q", "V", "T">>
TypeOf(o) == IF o = "S" THEN sparse_tensor("double") ELSE array("double", Len(Shapes[o]))
PositionOf(o) == CHOOSE k \in DOMAIN ParameterOrder : ParameterOrder[k] = o
Parameter(o) == variable_declaration("tensor", PositionOf(o), TypeOf(o))
\* In the mixed mode some are parameters and the others objects.
Parameters(mode) == CASE mode = "object" -> <<>>
                      [] mode = "parameter" -> ParameterOrder
                      [] mode = "mixed" -> <<"x", "M", "w", "Q", "S", "V">>
Ref(o, mode) == IF \E k \in DOMAIN Parameters(mode) : Parameters(mode)[k] = o
                THEN var(Parameter(o)) ELSE object_expr(o, TypeOf(o))

\* Indices: i and k have extent 2, j and c extent 3, r extent 5; m is (i, j).
Idx(name, id) == variable_declaration(name, id, index)
Extents == (21 :> 2) @@ (22 :> 3) @@ (23 :> 2) @@ (24 :> 5) @@ (25 :> 3)

Statements(mode, name) ==
    LET R(o) == Ref(o, mode)
        i == Idx(name, 21)
        j == Idx(name, 22)
        k == Idx(name, 23)
        r == Idx("r", 24)
        c == Idx("c", 25)
        alias == variable_declaration("multiindex", 26, multi_index(2))
        m == multi_index_expr(alias, <<i, j>>)
        a(o, ds) == subscription_expr(R(o), [n \in DOMAIN ds |-> var(ds[n])])
        range(lower, upper, stride) ==
            integer_range_expr(integer_literal(lower), integer_literal(upper), integer_literal(stride))
        minus(l, rh) == binary_operator_expr("minus", l, rh)
        d(f, s) == kronecker_delta_expr(2, var(f), var(s))
        x == a("x", <<i>>)
        z == a("z", <<i>>)
        w == a("w", <<i>>)
        to_x == {
            sum(j, multiplies(a("M", <<i, j>>), a("y", <<j>>))),
            sum(k, multiplies(d(i, k), a("z", <<k>>))),
            sum(j, sum(k, multiplies(multiplies(a("M", <<k, j>>), d(k, i)), a("y", <<j>>)))),
            sum(k, plus(multiplies(a("Q", <<i, k>>), d(i, k)), multiplies(d(k, i), a("w", <<k>>)))),
            sum(k, plus(multiplies(a("Q", <<i, k>>), d(i, k)), a("w", <<k>>))),
            sum(k, divides(multiplies(d(i, k), a("z", <<k>>)), a("w", <<k>>))),
            sum(k, d(i, k)),
            plus(z, sum(j, a("M", <<i, j>>))),
            minus(minus(z, w), z),
            minus(z, plus(w, z)),
            multiplies(z, plus(w, z)),
            multiplies(divides(z, w), z),
            plus(x, z),
            sum(k, multiplies(a("Q", <<i, k>>), a("x", <<k>>))),
            sum(j, z),
            subscription_expr(subscription_expr(R("v"), <<range(1, 5, 2)>>), <<var(i)>>)}
    IN  {assign(x, rhs) : rhs \in to_x} \cup {
            assign(a("Q", <<i, k>>), sum(j, multiplies(a("M", <<i, j>>), a("N", <<j, k>>)))),
            assign(a("Q", <<i, k>>), a("Q", <<k, i>>)),
            assign(a("x", <<k>>), sum_with_alias(<<i, j>>, alias, multiplies(
                subscription_expr(R("M"), <<m>>), subscription_expr(R("T"), <<m, var(k)>>)))),
            assign(a("Q", <<i, i>>), z),
            assign(subscription_expr(R("M"), <<m>>), sum(k, subscription_expr(R("T"), <<m, var(k)>>))),
            assign(subscription_expr(R("T"), <<m, var(k)>>),
                   multiplies(subscription_expr(R("M"), <<m>>), a("w", <<k>>))),
            assign(subscription_expr(subscription_expr(R("v"), <<range(0, 4, 2)>>), <<var(i)>>), z),
            assign(subscription_expr(R("x"), <<integer_literal(0)>>), a("z", <<i>>)),
            assign(a("v", <<r>>), sum(c, multiplies(a("S", <<r, c>>), a("y", <<c>>)))),
            assign(a("y", <<c>>), sum(r, multiplies(a("v", <<r>>), a("S", <<r, c>>)))),
            assign(a("V", <<r, k>>), sum(c, multiplies(a("S", <<r, c>>), a("N", <<c, k>>)))),
            assign(a("v", <<r>>), plus(a("u", <<r>>), sum(c, multiplies(a("S", <<r, c>>), a("y", <<c>>)))))}

\* A second statement that reads what the first has written, or another object.
Second(mode, name) ==
    LET i == Idx(name, 21)
        a(o) == subscription_expr(Ref(o, mode), <<var(i)>>)
    IN  {assign(a("x"), multiplies(a("x"), a("w"))), assign(a("x"), plus(a("w"), a("z"))),
         assign(a("z"), a("w"))}

Kernel(mode, statements) ==
    [params |-> [k \in DOMAIN Parameters(mode) |-> Parameter(Parameters(mode)[k])], args |-> Parameters(mode),
     statements |-> statements, ext |-> Extents, next |-> 30]
Modes == {"object", "parameter", "mixed"}
MCKernels ==
    UNION {{Kernel(mode, <<s>>) : s \in Statements(mode, name)} : mode \in Modes, name \in {"index", "obj", "end"}}
    \cup UNION {{Kernel(mode, <<s, t>>) : s \in Statements(mode, "index"), t \in Second(mode, "index")} : mode \in Modes}
=============================================================================
