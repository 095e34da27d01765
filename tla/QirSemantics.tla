--------------------------- MODULE QirSemantics ---------------------------
(***************************************************************************)
(* What programs of the intermediate representation compute: the reference *)
(* that the passes and the text form are checked against.  Numbers are     *)
(* integers.  A value is a set with at most one number; the empty set is   *)
(* an undefined value (an uninitialized or missing element) and makes      *)
(* everything computed from it undefined.                                  *)
(***************************************************************************)
EXTENDS QtlPasses

Defined(n) == {n}
Undefined == {}
The(v) == CHOOSE n \in v : TRUE
Lift(a, b, Op(_, _)) == {Op(x, y) : x \in a, y \in b}
Sum(values) == LET from[k \in 0 .. Len(values)] ==
                       IF k = 0 THEN Defined(0) ELSE Lift(from[k - 1], values[k], LAMBDA x, y : x + y)
               IN  from[Len(values)]

\* A dense array: its shape and its elements by position.
Positions(shape) ==
    LET longest == CHOOSE n \in {shape[d] : d \in DOMAIN shape} : \A d \in DOMAIN shape : shape[d] <= n
    IN  {p \in [DOMAIN shape -> 0 .. (longest - 1)] : \A d \in DOMAIN shape : p[d] < shape[d]}
Array(shape, element(_)) == [shape |-> shape, at |-> [p \in Positions(shape) |-> element(p)]]
Vector(seq) == Array(<<Len(seq)>>, LAMBDA p : seq[p[1] + 1])

\* Quotient and remainder of C++: towards zero.
Quotient(x, y) == IF (x < 0) = (y < 0) THEN (IF x < 0 THEN (0 - x) \div (0 - y) ELSE x \div y)
                  ELSE 0 - (IF x < 0 THEN (0 - x) \div y ELSE x \div (0 - y))
Truth(b) == IF b THEN 1 ELSE 0
Apply(op, x, y) ==
    CASE op = "plus" -> x + y
      [] op = "minus" -> x - y
      [] op = "multiplies" -> x * y
      [] op = "divides" -> Quotient(x, y)
      [] op = "modulus" -> x - y * Quotient(x, y)

----------------------------------------------------------------------------
(* A machine has the objects that variables refer to (bind), the extent of *)
(* every abstract index (ext), the elements of multi indices in scope      *)
(* (alias), the values of indices and loop variables (env) and the objects *)
(* (store).  An object is an array or a record of objects; the member      *)
(* dense is what a sparse tensor stands for.                               *)

Machine(bind, ext, store) == [bind |-> bind, ext |-> ext, alias |-> <<>>, env |-> <<>>, store |-> store]

RECURSIVE Value(_, _), Subscripts(_, _), View(_, _), Lookup(_, _), MemberPath(_, _)

Lookup(m, path) == IF Len(path) = 1 THEN m.store[path[1]]
                   ELSE Lookup(m, SubSeq(path, 1, Len(path) - 1))[path[Len(path)]]

MemberPath(e, m) == IF e.tag = "variable_ref" THEN <<m.bind[e.decls[1].id]>>
                    ELSE MemberPath(e.sub[1], m) \o <<e.name>>

\* An array access: where the array is and, per dimension, the offset, stride and
\* extent of the part that slices have left.
Entire(path, shape) ==
    [path |-> path, dims |-> [d \in DOMAIN shape |-> [offset |-> 0, stride |-> 1, extent |-> shape[d]]]]
Whole(path, object) ==
    CASE "at" \in DOMAIN object -> Entire(path, object.shape)
      [] "dense" \in DOMAIN object -> Entire(path \o <<"dense">>, object.dense.shape)
      [] OTHER -> [path |-> path, dims |-> <<>>]
Part(dim, range) == [offset |-> dim.offset + The(range[1]) * dim.stride,
                     stride |-> dim.stride * The(range[3]),
                     extent |-> (The(range[2]) - The(range[1])) \div The(range[3])]
Parts(base, ranges) == [path |-> base.path, dims |-> [d \in DOMAIN base.dims |-> Part(base.dims[d], ranges[d])]]
ViewAt(path, m) == Whole(path, Lookup(m, path))
View(e, m) ==
    CASE e.tag = "object" -> ViewAt(<<e.name>>, m)
      [] e.tag \in {"variable_ref", "member_access"} -> ViewAt(MemberPath(e, m), m)
      [] e.tag = "subscription" ->
           Parts(View(e.sub[1], m), [d \in DOMAIN Tail(e.sub) |-> [k \in 1 .. 3 |-> Value(e.sub[1 + d].sub[k], m)]])

\* The values of subscripts, multi indices replaced by their elements.
Subscripts(es, m) ==
    LET values(decls) == [k \in DOMAIN decls |-> m.env[decls[k].id]]
        one(e) == CASE e.tag = "multi_index" -> values(Tail(e.decls))
                    [] e.tag = "variable_ref" /\ e.decls[1].type.kind = "multi_index" -> values(m.alias[e.decls[1].id])
                    [] OTHER -> <<Value(e, m)>>
    IN  Seqs!FoldLeft(LAMBDA done, e : done \o one(e), <<>>, es)

\* The element that a subscription refers to, as a set with at most one place.
PlaceIn(view, subs, m) ==
    IF Len(subs) # Len(view.dims) \/ \E d \in DOMAIN subs : subs[d] = Undefined THEN {}
    ELSE {place \in {[path |-> view.path,
                      pos |-> [d \in DOMAIN subs |-> view.dims[d].offset + view.dims[d].stride * The(subs[d])]]} :
              place.pos \in DOMAIN Lookup(m, view.path).at}
Place(e, m) == PlaceIn(View(e.sub[1], m), Subscripts(Tail(e.sub), m), m)
Element(places, m) == UNION {Lookup(m, place.path).at[place.pos] : place \in places}

\* The machines in which the indices take all their values, the last one fastest.
Iterations(m, decls) ==
    LET from[k \in 0 .. Len(decls)] ==
            IF k = 0 THEN <<m>>
            ELSE LET n == m.ext[decls[k].id]
                 IN  [j \in 1 .. (Len(from[k - 1]) * n) |->
                          LET outer == from[k - 1][((j - 1) \div n) + 1]
                          IN  [outer EXCEPT !.env = (decls[k].id :> Defined((j - 1) % n)) @@ @]]
    IN  from[Len(decls)]
Within(m, e) == IF HasAlias(e) THEN [m EXCEPT !.alias = (Alias(e).id :> Indices(e)) @@ @] ELSE m

SumOver(points, e) == Sum([k \in DOMAIN points |-> Value(e, points[k])])
Value(e, m) ==
    LET with(Op(_, _)) == Lift(Value(e.sub[1], m), Value(e.sub[2], m), Op)
    IN  CASE e.tag \in {"integer_literal", "double_literal", "float_literal"} -> Defined(e.num)
          [] e.tag = "variable_ref" -> IF e.decls[1].id \in DOMAIN m.env THEN m.env[e.decls[1].id] ELSE Undefined
          [] e.tag = "binary_operator" -> with(LAMBDA x, y : Apply(e.name, x, y))
          [] e.tag = "unary_operator" ->
               Lift(Defined(0), Value(e.sub[1], m), LAMBDA x, y : IF e.name = "negate" THEN x - y ELSE y)
          [] e.tag = "subscription" -> Element(Place(e, m), m)
          [] e.tag = "intrinsic_function" /\ e.name = "extent" ->
               Defined(View(e.sub[1], m).dims[The(Value(e.sub[2], m)) + 1].extent)
          [] e.tag = "kronecker_delta" \/ (e.tag = "intrinsic_function" /\ e.name = "delta") ->
               with(LAMBDA x, y : Truth(x = y))
          [] e.tag = "sum" -> SumOver(Iterations(Within(m, e), Indices(e)), e.sub[1])

----------------------------------------------------------------------------
\* The store after a statement.  A write to no element leaves nothing defined.
Broken(m) == [o \in DOMAIN m.store |-> Vector(<<>>)]
RECURSIVE Exec(_, _), ExecAll(_, _, _), ExecPoints(_, _, _, _), ExecLoop(_, _, _, _, _)
Write(places, v, m) ==
    IF places = {} THEN Broken(m) ELSE [m.store EXCEPT ![The(places).path[1]].at[The(places).pos] = v]
ExecPoints(e, points, i, m) ==
    IF i > Len(points) THEN m.store
    ELSE ExecPoints(e, points, i + 1, [m EXCEPT !.store = Exec(e, [points[i] EXCEPT !.store = m.store])])
Exec(e, m) ==
    CASE e.tag = "compound" -> ExecAll(e.sub, 1, m)
      [] e.tag = "for" ->
           ExecLoop(e, The(Value(e.sub[1], m)), The(Value(e.sub[2], m)), The(Value(e.sub[3], m)), m)
      [] e.tag = "for_all" -> ExecPoints(e.sub[1], Iterations(Within(m, e), Indices(e)), 1, m)
      [] e.tag = "binary_operator" ->
           Write(Place(e.sub[1], m),
                 IF e.name = "assign" THEN Value(e.sub[2], m)
                 ELSE Lift(Value(e.sub[1], m), Value(e.sub[2], m), LAMBDA x, y : x + y), m)
ExecAll(es, i, m) == IF i > Len(es) THEN m.store ELSE ExecAll(es, i + 1, [m EXCEPT !.store = Exec(es[i], m)])
ExecLoop(e, at, upper, step, m) ==
    IF at >= upper THEN m.store
    ELSE ExecLoop(e, at + step, upper, step,
                  [m EXCEPT !.store = Exec(e.sub[4], [m EXCEPT !.env = (e.decls[1].id :> Defined(at)) @@ @])])

----------------------------------------------------------------------------
(* What a statement of the tensor language promises: every element that    *)
(* the left-hand side names gets the value of the right-hand side there.   *)

OuterIndices(e) ==
    LET of(s) == IF s.tag = "multi_index" THEN Tail(s.decls) ELSE s.decls
        known(done, d) == \E l \in DOMAIN done : done[l] = d
    IN  Seqs!FoldLeft(LAMBDA done, s : done \o SelectSeq(of(s), LAMBDA d : ~known(done, d)), <<>>, Tail(e.sub[1].sub))

PromiseIn(e, path, points, places, m) ==
    LET old == m.store[path[1]].at
        hits(p) == {k \in DOMAIN points : places[k] = {[path |-> path, pos |-> p]}}
    IN  [m.store EXCEPT ![path[1]].at = [p \in DOMAIN old |-> IF hits(p) = {} THEN old[p]
                                             ELSE Value(e.sub[2], points[CHOOSE k \in hits(p) : TRUE])]]
PromiseOver(e, points, m) ==
    PromiseIn(e, View(e.sub[1].sub[1], m).path, points, [k \in DOMAIN points |-> Place(e.sub[1], points[k])], m)
Promise(e, m) == PromiseOver(e, Iterations(m, OuterIndices(e)), m)
=============================================================================
