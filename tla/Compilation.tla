---------------------------- MODULE Compilation ----------------------------
(***************************************************************************)
(* The CPU backend compiles a function (src/backends/CPU/cpu_compiler.cpp: *)
(* conversions are made explicit, then the JIT runs) and executes it on    *)
(* the memory of its arguments.  The axioms of the function are analysed   *)
(* and its constants folded on the side.                                   *)
(***************************************************************************)
EXTENDS Jit

\* Programs: records of a function and of the objects for its parameters and its
\* result, by identity.  Objects: arrays, by name.  Poison: LLVM's value of an
\* instruction whose promise is broken.
CONSTANTS Programs, Objects, Poison

VARIABLES
    program,  \* the program that is compiled
    stage,    \* what has been done with it
    body,     \* the body of the function in its current form
    code,     \* the instructions it is compiled to
    memory    \* the memory of the objects

vars == <<program, stage, body, code, memory>>

NoCode == Instruction("none", unknown, <<>>)

----------------------------------------------------------------------------
(* Memory.  Real numbers are counted in units of 1/6, so that a conversion *)
(* of an integer does something; a complex number is a pair of them.       *)

Unit == 6
RealTimes(x, y) == Quotient(x * y, Unit)
RealOver(x, y) == Quotient(x * Unit, y)

\* cpu_array_view: the rank, the extents and the elements; the last index varies
\* fastest.
LinearIndex(shape, position) ==
    Seqs!FoldLeft(LAMBDA sum, d : shape[d] * sum + position[d], 0, [d \in DOMAIN shape |-> d])
Size(shape) == Seqs!FoldLeft(LAMBDA n, extent_ : n * extent_, 1, shape)
Positions(shape) ==
    {p \in [DOMAIN shape -> 0 .. (Size(shape) - 1)] : \A d \in DOMAIN shape : p[d] < shape[d]}
cpu_array_view(object) ==
    LET element(k) == object.at[CHOOSE p \in Positions(object.shape) : LinearIndex(object.shape, p) = k - 1]
    IN  <<Len(object.shape)>> \o object.shape \o [k \in 1 .. Size(object.shape) |-> element(k)]

----------------------------------------------------------------------------
(* What the instructions do.  A state has the memory, the objects of the   *)
(* arguments and the slots of local variables.                             *)

Quotients(x, y, norm) == <<RealOver(x, norm), RealOver(y, norm)>>
ComplexOp(op, x, y) ==
    LET times(k, l) == RealTimes(x[k], y[l])
    IN  CASE op = "plus" -> <<x[1] + y[1], x[2] + y[2]>>
          [] op = "minus" -> <<x[1] - y[1], x[2] - y[2]>>
          [] op = "multiplies" -> <<times(1, 1) - times(2, 2), times(1, 2) + times(2, 1)>>
          [] op = "divides" -> Quotients(times(1, 1) + times(2, 2), times(2, 1) - times(1, 2),
                                         RealTimes(y[1], y[1]) + RealTimes(y[2], y[2]))
RealOp(op, x, y) ==
    CASE op = "multiplies" -> RealTimes(x, y)
      [] op = "divides" -> RealOver(x, y)
      [] OTHER -> IntegerResult(op, x, y)
Compare(op, x, y) ==
    CASE op = "equal_to" -> x = y
      [] op = "less" -> x < y
      [] op = "less_equal" -> x <= y
      [] op = "greater" -> x > y
      [] op = "greater_equal" -> x >= y
\* Truth values are compared as signed numbers of one bit.
Bit(b) == IF b THEN -1 ELSE 0
Operate(op, t, x, y) ==
    CASE op \in comparisons -> IF t = bool_ THEN Compare(op, Bit(x), Bit(y)) ELSE Compare(op, x, y)
      [] op = "logical_and" -> x /\ y
      [] op = "logical_or" -> x \/ y
      [] t = integer -> IntegerResult(op, x, y)
      [] t.kind = "complex" -> ComplexOp(op, x, y)
      [] OTHER -> RealOp(op, x, y)

\* Integers have 64 bits; 12 are enough for the numbers of small programs.  Sums,
\* differences and products are emitted with the promise that they wrap neither
\* as unsigned nor as signed numbers, the sum of a plus_assign without it.
WordSize == 4096
Flagged == {"plus", "minus", "multiplies"}
KeepsPromise(op, x, y) ==
    op \in Flagged => /\ IntegerResult(op, x % WordSize, y % WordSize) \in 0 .. (WordSize - 1)
                      /\ IntegerResult(op, x, y) \in (-WordSize \div 2) .. ((WordSize \div 2) - 1)
Wrapped(n) == ((n + WordSize \div 2) % WordSize) - WordSize \div 2
EmittedInteger(op, x, y) ==
    IF Poison \in {x, y} \/ ~KeepsPromise(op, x, y) THEN Poison
    ELSE IF op = "plus_assign" THEN Wrapped(x + y) ELSE IntegerResult(op, x, y)
EmittedOperate(op, t, x, y) ==
    CASE t = integer /\ op \notin comparisons -> EmittedInteger(op, x, y)
      [] op = "plus_assign" -> Operate("plus", t, x, y)
      [] OTHER -> Operate(op, t, x, y)
Negate(t, x) == IF t.kind = "complex" THEN <<0 - x[1], 0 - x[2]>> ELSE 0 - x
Widen(from, to, x) ==
    LET real == IF from = integer THEN x * Unit ELSE x
    IN  IF from = to \/ from.kind = "complex" THEN x ELSE IF to.kind = "complex" THEN <<real, 0>> ELSE real

\* Eval is the value behind the reference, for an array its address; Address
\* the place of an element, or nothing for a temporary.
RECURSIVE Eval(_, _), Address(_, _), Run(_, _), RunAll(_, _), RunLoop(_, _, _, _)
\* The rank of an array is that of its type, not the one in its memory.
load_array_data_ptr(type) == LET rank == type.rank IN rank + 1
load_array_shape_ptr == 1
AddressIn(object, data, at) == IF at = Poison THEN Poison ELSE [object |-> object, word |-> data + at + 1]
ElementAddress(type, array_, at) == AddressIn(array_, load_array_data_ptr(type), at)
SliceAddress(slice, at, s) ==
    LET extent_(k) == s.mem[slice.array][slice.shape + k]
        transformed(k) == EmittedInteger("plus", slice.ranges[k][1], EmittedInteger("multiplies", slice.ranges[k][3], at[k]))
        step(sum, k) == EmittedInteger("plus", EmittedInteger("multiplies", extent_(k), sum), transformed(k))
    IN  AddressIn(slice.array, slice.data, Seqs!FoldLeft(step, 0, [k \in DOMAIN slice.ranges |-> k]))
Address(c, s) ==
    LET x == [k \in DOMAIN c.sub |-> Eval(c.sub[k], s)]
    IN  IF Poison \in {x[k] : k \in DOMAIN x} THEN Poison
        ELSE IF c.op = "element" THEN ElementAddress(c.sub[1].type, x[1], x[2]) ELSE SliceAddress(x[1], Tail(x), s)
LoadAt(address, s) == IF address = Poison THEN Poison ELSE s.mem[address.object][address.word]
SliceOf(type, array_, ranges) ==
    [array |-> array_, data |-> load_array_data_ptr(type), shape |-> load_array_shape_ptr, ranges |-> ranges]
\* A value made of the values of the operands, none of which is poison.
ComputedOf(c, x, s) ==
    CASE c.op = "operate" /\ c.name = "negate" -> Negate(c.type, x[1])
      [] c.op = "operate" /\ c.name = "nop" -> x[1]
      [] c.op = "operate" -> EmittedOperate(c.name, c.sub[1].type, x[1], x[2])
      [] c.op = "convert" -> Widen(c.sub[1].type, c.type, x[1])
      [] c.op = "integers" /\ c.name = "min" -> IF x[1] < x[2] THEN x[1] ELSE x[2]
      [] c.op = "integers" /\ c.name = "max" -> IF x[1] < x[2] THEN x[2] ELSE x[1]
      [] c.op = "integers" /\ c.name = "delta" -> IF x[1] = x[2] THEN 1 ELSE 0
      [] c.op = "range" -> x
      [] c.op = "slice" -> SliceOf(c.sub[1].type, x[1], Tail(x))
      [] c.op = "extent" -> s.mem[x[1]][load_array_shape_ptr + x[2] + 1]
      [] c.op = "slice_extent" -> LET r == x[1].ranges[x[2] + 1]
                                  IN  EmittedInteger("divides", EmittedInteger("minus", r[2], r[1]), r[3])
Computed(c, x, s) == IF Poison \in {x[k] : k \in DOMAIN x} THEN Poison ELSE ComputedOf(c, x, s)
Eval(c, s) ==
    CASE c.op = "constant" -> IF c.type = integer THEN c.num ELSE c.num * Unit
      [] c.op = "slot" -> s.frame[c.num]
      [] c.op = "argument" -> s.args[c.num]
      [] c.op \in {"element", "slice_element"} -> LoadAt(Address(c, s), s)
      [] c.op = "uninitialized" -> <<>>
      [] OTHER -> Computed(c, [k \in DOMAIN c.sub |-> Eval(c.sub[k], s)], s)

\* An access through a poisoned address, a division by poison and a branch on it
\* are undefined: nothing is known of what is executed then.
RECURSIVE Undefined(_, _)
Undefined(c, s) ==
    \/ \E k \in DOMAIN c.sub : Undefined(c.sub[k], s)
    \/ c.op \in {"element", "slice_element"} /\ Address(c, s) = Poison
    \/ c.op \in {"extent", "slice_extent"} /\ Eval(c.sub[2], s) = Poison
    \/ c.op = "operate" /\ c.name \in {"divides", "modulus", "div_floor"} /\ Eval(c.sub[2], s) = Poison
ValueOperands(c) == CASE c.op = "store" -> {1, 2} [] c.op = "loop" -> {1, 2, 3} [] c.op = "block" -> {} [] OTHER -> {1}
ReachesUndefined(c, s) == \/ \E k \in ValueOperands(c) : Undefined(c.sub[k], s)
                          \/ c.op = "branch" /\ Eval(c.sub[1], s) = Poison

\* A store into a temporary is lost.
StoreAt(address, v, s) == [s EXCEPT !.mem[address.object][address.word] = v]
Effect(c, s) ==
    CASE c.op = "store" ->
           IF c.sub[1].op \in {"element", "slice_element"} THEN StoreAt(Address(c.sub[1], s), Eval(c.sub[2], s), s)
           ELSE IF c.sub[1].op = "slot" THEN [s EXCEPT !.frame[c.sub[1].num] = Eval(c.sub[2], s)]
           ELSE s
      [] c.op = "define" -> [s EXCEPT !.frame = (c.num :> Eval(c.sub[1], s)) @@ @]
      [] c.op = "block" -> RunAll(c.sub, s)
      [] c.op = "branch" -> Run(c.sub[IF Eval(c.sub[1], s) THEN 2 ELSE 3], s)
      [] c.op = "loop" -> RunLoop(c, Eval(c.sub[3], s), Eval(c.sub[1], s),
                                  [s EXCEPT !.frame = (c.num :> Eval(c.sub[2], s)) @@ @])
Run(c, s) == IF ~s.defined THEN s ELSE IF ReachesUndefined(c, s) THEN [s EXCEPT !.defined = FALSE] ELSE Effect(c, s)
RunAll(cs, s) == IF cs = <<>> THEN s ELSE RunAll(Tail(cs), Run(Head(cs), s))
Stepped(s, idx, increment) == [s EXCEPT !.frame[idx] = EmittedInteger("plus", @, increment)]
RunLoop(c, upper, increment, s) ==
    IF Poison \in {s.frame[c.num], upper} THEN [s EXCEPT !.defined = FALSE]
    ELSE IF ~s.defined \/ s.frame[c.num] >= upper THEN s
    ELSE RunLoop(c, upper, increment, Stepped(Run(c.sub[4], s), c.num, increment))

----------------------------------------------------------------------------
(* The actions.                                                            *)

Init == /\ program \in Programs
        /\ stage = "translated"
        /\ body = program.function.body
        /\ code = NoCode
        /\ memory = [o \in DOMAIN Objects |-> cpu_array_view(Objects[o])]

\* The body with its constants folded is only looked at, by axiom_analysis.
FoldConstants ==
    /\ stage = "translated"
    /\ body' = fold_constant_expressions(body)
    /\ stage' = IF Raised(body') THEN "thrown" ELSE "folded"
    /\ UNCHANGED <<program, code, memory>>

MakeConversionsExplicit ==
    /\ stage = "translated"
    /\ body' = make_implicit_conversions_explicit(body)
    /\ stage' = IF Raised(body') THEN "thrown" ELSE "explicit"
    /\ UNCHANGED <<program, code, memory>>

CompileFunction ==
    /\ stage = "explicit"
    /\ code' = compile_function([program.function EXCEPT !.body = body])
    /\ stage' = IF code'.op \in Failures THEN code'.op ELSE "compiled"
    /\ UNCHANGED <<program, body, memory>>

Execute ==
    /\ stage = "compiled"
    /\ WellFormed(code)
    /\ LET end == Run(code, [mem |-> memory, args |-> program.args, frame |-> <<>>, defined |-> TRUE])
       IN  /\ memory' = end.mem
           /\ stage' = IF end.defined THEN "executed" ELSE "undefined"
    /\ UNCHANGED <<program, body, code>>

Next == FoldConstants \/ MakeConversionsExplicit \/ CompileFunction \/ Execute
Spec == Init /\ [][Next]_vars
----------------------------------------------------------------------------
(* What a program means: the values of typed expressions over arrays that  *)
(* are functions of positions, whatever their layout.  A machine has the   *)
(* arrays, the objects of the parameters, the local variables, whether all *)
(* axioms have held so far, and whether a sum, difference or product of    *)
(* integers wrapped as an unsigned number, which the meaning does not mind. *)

Conjugate(x) == <<x[1], 0 - x[2]>>
Floor(a, b) == IF b < 0 THEN (0 - a) \div (0 - b) ELSE a \div b
OverReal(x, y) == Quotients(x[1], x[2], y[1])
Meant(op, t, x, y) ==
    CASE op = "div_floor" -> Floor(x, y)
      [] op = "divides" /\ t.kind = "complex" ->
           OverReal(ComplexOp("multiplies", x, Conjugate(y)), ComplexOp("multiplies", y, Conjugate(y)))
      [] op \in comparisons /\ t = bool_ -> Compare(op, 0 - Bit(x), 0 - Bit(y))
      [] OTHER -> Operate(op, t, x, y)
\* Operands of the types s and u in the type t; a function of integers.
MeantIn(op, t, s, x, u, y) == Meant(op, t, Widen(s, t, x), Widen(u, t, y))
MeantBy(op, s, x, u, y) == MeantIn(op, common_type(s, u), s, x, u, y)
IntegerFunction(name, x, y) ==
    CASE name = "min" -> IF x <= y THEN x ELSE y
      [] name = "max" -> IF x >= y THEN x ELSE y
      [] name = "delta" -> IF x = y THEN 1 ELSE 0

RECURSIVE Value(_, _), View(_, _), Exec(_, _, _), ExecAll(_, _, _), ExecLoop(_, _, _, _, _, _)
\* Per dimension: offset, stride and number of elements.
Dimension(d, r) == <<d[1] + r[1] * d[2], d[2] * r[3], (r[2] - r[1] + r[3] - 1) \div r[3]>>
Sliced(view, ranges) == [view EXCEPT !.dims = [k \in DOMAIN view.dims |-> Dimension(view.dims[k], ranges[k])]]
Entire(o, shape) == [object |-> o, dims |-> [k \in DOMAIN shape |-> <<0, 1, shape[k]>>]]
View(e, m) ==
    CASE e.tag = "variable_ref" /\ e.decls[1].id \in DOMAIN m.env -> m.env[e.decls[1].id]
      [] e.tag = "variable_ref" -> LET o == m.args[e.decls[1].id] IN Entire(o, m.store[o].shape)
      [] e.tag = "subscription" ->
           Sliced(View(e.sub[1], m), [k \in DOMAIN Tail(e.sub) |-> [n \in 1 .. 3 |-> Value(e.sub[1 + k].sub[n], m)]])
PlaceIn(v, at) == [object |-> v.object, at |-> [k \in DOMAIN v.dims |-> v.dims[k][1] + v.dims[k][2] * at[k]]]
Place(e, m) == PlaceIn(View(e.sub[1], m), [k \in DOMAIN Tail(e.sub) |-> Value(e.sub[1 + k], m)])
Element(p, m) == m.store[p.object].at[p.at]
Value(e, m) ==
    LET arg(k) == Value(e.sub[k], m)
        type(k) == typeof_(e.sub[k])
    IN  CASE e.tag = "integer_literal" -> e.num
          [] e.tag \in {"double_literal", "float_literal"} -> e.num * Unit
          [] typeof_(e).kind = "array_slice" -> View(e, m)
          [] e.tag = "variable_ref" -> m.env[e.decls[1].id]
          [] e.tag = "subscription" -> Element(Place(e, m), m)
          [] e.tag = "binary_operator" -> MeantBy(e.name, type(1), arg(1), type(2), arg(2))
          [] e.tag = "unary_operator" -> CASE e.name = "negate" -> Negate(type(1), arg(1))
                                           [] e.name = "logical_not" -> ~arg(1)
                                           [] OTHER -> arg(1)
          [] e.tag = "type_conversion" -> Widen(type(1), e.type, arg(1))
          [] e.tag = "construct" -> <<>>
          [] e.name = "extent" -> View(e.sub[1], m).dims[arg(2) + 1][3]
          [] OTHER -> IntegerFunction(e.name, arg(1), arg(2))

RECURSIVE Wraps(_, _)
Wraps(e, m) ==
    \/ \E k \in DOMAIN e.sub : Wraps(e.sub[k], m)
    \/ /\ e.tag = "binary_operator" /\ e.name \in Flagged /\ typeof_(e) = integer
       /\ ~KeepsPromise(e.name, Value(e.sub[1], m), Value(e.sub[2], m))

\* A statement, under the axioms of the scopes around it.
Checked(m, assumed) == [m EXCEPT !.ok = @ /\ \A k \in DOMAIN assumed : Value(assumed[k], m)]
Assigned(p, v, m) == [m EXCEPT !.store[p.object].at[p.at] = v]
NewValue(op, t, old, u, v) == IF op = "assign" THEN Widen(u, t, v) ELSE MeantIn("plus", t, t, old, u, v)
Stored(e, v, m) == IF e.tag = "subscription" THEN Assigned(Place(e, m), v, m)
                   ELSE [m EXCEPT !.env[e.decls[1].id] = v]
Evaluated(e) == CASE e.tag = "binary_operator" -> {1, 2} [] e.tag = "for" -> {1, 2, 3} [] e.tag = "compound" -> {} [] OTHER -> {1}
Noted(e, m) == [m EXCEPT !.wrapped = @ \/ \E k \in Evaluated(e) : Wraps(e.sub[k], m)]
ExecChecked(e, m, assumed) ==
    LET arg(k) == Value(e.sub[k], m)
        type(k) == typeof_(e.sub[k])
        within(k) == assumed \o generate_axiom_scope_tree(e, k)
    IN  CASE e.tag = "binary_operator" ->
               Stored(e.sub[1], NewValue(e.name, type(1), arg(1), type(2), arg(2)), m)
          [] e.tag = "local_variable_def" -> [m EXCEPT !.env = (e.decls[1].id :> arg(1)) @@ @]
          [] e.tag = "compound" -> ExecAll(e.sub, m, assumed)
          [] e.tag = "if" -> IF arg(1) THEN Exec(e.sub[2], m, within(2))
                             ELSE IF Len(e.sub) = 3 THEN Exec(e.sub[3], m, within(3)) ELSE m
          [] e.tag = "for" -> ExecLoop(e, arg(1), arg(2), arg(3), m, within(4))
Exec(e, m, assumed) == ExecChecked(e, Noted(e, Checked(m, assumed)), assumed)
ExecAll(es, m, assumed) == IF es = <<>> THEN m ELSE ExecAll(Tail(es), Exec(Head(es), m, assumed), assumed)
ExecLoop(e, at, upper, increment, m, assumed) ==
    IF at >= upper THEN m
    ELSE ExecLoop(e, at + increment, upper, increment,
                  Exec(e.sub[4], [m EXCEPT !.env = (e.decls[1].id :> at) @@ @,
                                           !.wrapped = @ \/ ~KeepsPromise("plus", at, increment)], assumed), assumed)
Meaning(e) == Exec(e, [store |-> Objects, args |-> program.args, env |-> <<>>, ok |-> TRUE, wrapped |-> FALSE], <<>>)

----------------------------------------------------------------------------
(* Programs that are computed differently, and ones that do not compile.   *)

RECURSIVE Parts(_), Compilable(_)
Parts(e) == {e} \cup UNION {Parts(e.sub[k]) : k \in DOMAIN e.sub}
Somewhere(e, Holds(_)) == \E part \in Parts(e) : Holds(part)
IsBinary(e, ops) == e.tag = "binary_operator" /\ e.name \in ops
Assignments == {"assign", "plus_assign"}

\* The target of an assignment is converted, so that a temporary is assigned.
Narrows(e) == IsBinary(e, Assignments) /\ typeof_(e) # typeof_(e.sub[1])
Signed(e) == e.tag = "unary_operator" \/ (e.tag = "integer_literal" /\ e.num < 0)
FloorsNegative(e) == IsBinary(e, {"div_floor"}) /\ \E k \in {1, 2} : Somewhere(e.sub[k], Signed)
OrdersTruth(e) == IsBinary(e, comparisons \ {"equal_to"}) /\ typeof_(e.sub[1]) = bool_
\* A last, incomplete step does not count in the extent of a slice.
UnevenRange(e) == /\ e.tag = "integer_range" /\ \A k \in 1 .. 3 : e.sub[k].tag = "integer_literal"
                  /\ (e.sub[2].num - e.sub[1].num) % e.sub[3].num # 0
MeasuresUneven(e) == e.tag = "intrinsic_function" /\ e.name = "extent" /\ Somewhere(e.sub[1], UnevenRange)
Faithful(e) == ~Somewhere(e, Narrows) /\ ~Somewhere(e, FloorsNegative) /\ ~Somewhere(e, OrdersTruth)
               /\ ~Somewhere(e, MeasuresUneven)

\* The value types of the language, as far as the JIT supports them.
Compilable(e) ==
    LET type(k) == typeof_(e.sub[k])
        typed(t) == \A k \in DOMAIN e.sub : type(k) = t
        subscripts == Tail(e.sub)
        all(kind) == \A k \in DOMAIN subscripts : typeof_(subscripts[k]).kind = kind
        common == common_type(type(1), type(2))
    IN  /\ \A k \in DOMAIN e.sub : Compilable(e.sub[k])
        /\ CASE IsBinary(e, comparisons) -> type(1) = type(2) /\ type(1) \in {integer, bool_}
             [] IsBinary(e, {"logical_and", "logical_or"}) -> typed(bool_)
             [] IsBinary(e, {"not_equal_to"}) -> FALSE
             [] IsBinary(e, {"assign"}) -> common # NoType
             [] e.tag = "binary_operator" -> common.kind \in arithmetic_kinds(e.name)
             [] e.tag = "unary_operator" -> e.name = "plus" \/ (e.name = "negate" /\ type(1).kind \notin {"bool", "none"})
             [] e.tag = "for" -> \A k \in 1 .. 3 : type(k) = integer
             [] e.tag = "if" -> type(1) = bool_
             [] e.tag = "integer_range" -> typed(integer)
             [] e.tag = "intrinsic_function" -> e.name \in {"extent", "min", "max", "delta"} /\ typeof_(e) # NoType
             [] e.tag = "type_conversion" -> e.type \in conversions(type(1))
             [] e.tag = "subscription" -> \/ type(1).kind \in {"array", "array_slice"} /\ all("integer")
                                          \/ type(1).kind = "array" /\ all("integer_range")
             [] e.tag = "local_variable_def" -> type(1) = e.decls[1].type /\ type(1).kind \notin {"array", "bool"}
             [] e.tag = "construct" -> e.sub = <<>> /\ e.type.kind \notin {"array", "bool", "index"}
             [] OTHER -> e.tag \in {"compound", "variable_ref", "integer_literal", "double_literal", "float_literal"}

\* Executed on the memory of its arguments, the code writes exactly the elements
\* that the program assigns, where the views of the host find them, and never
\* over the extents in front of them.  A poisoned element or undefined execution
\* needs a program in which a sum, difference or product of integers wraps as an
\* unsigned number, as 2 - 3 and (-5) * 2 do.  Folding constants changes nothing.
\* Not so for quotients of negative numbers, assignments to a narrower type, the
\* order of truth values and the extents of uneven slices.
Poisoned == \E o \in DOMAIN Objects : Poison \in {memory[o][k] : k \in DOMAIN memory[o]}
ComputesTheProgram ==
    Faithful(program.function.body) =>
    /\ stage = "executed" => LET store == Meaning(program.function.body).store
                                 seen(o) == cpu_array_view(store[o])
                             IN  \A o \in DOMAIN Objects :
                                     /\ DOMAIN memory[o] = DOMAIN seen(o)
                                     /\ \A k \in DOMAIN seen(o) : memory[o][k] \in {seen(o)[k], Poison}
    /\ stage = "undefined" \/ Poisoned => Meaning(program.function.body).wrapped
    /\ stage = "folded" /\ Compilable(program.function.body) =>
           Meaning(body).store = Meaning(program.function.body).store

\* Exactly the programs of the supported value types compile, to instructions
\* that LLVM accepts: every conversion that a common type asks for exists, and
\* no operator is left with operands of two types.  Compilation ends the process
\* only where a local variable or the result of a function would hold a truth
\* value.
KeepsTruth(e) ==
    \/ e.tag \in {"local_variable_def", "construct"} /\ bool_ \in {e.type} \cup {e.decls[k].type : k \in DOMAIN e.decls}
    \/ e.tag = "intrinsic_function" /\ e.name \in {"min", "max", "select"} /\ typeof_(e.sub[1]) = bool_
CompilesWhatIsTyped ==
    /\ stage = "thrown" => ~Compilable(program.function.body)
    /\ stage = "terminated" => ~Compilable(program.function.body) /\ Somewhere(program.function.body, KeepsTruth)
    /\ stage = "compiled" => (WellFormed(code) <=> Compilable(program.function.body))

\* What axiom_analysis promises of a loop body or a branch is true whenever it
\* runs, unless it assigns what the condition or the bounds read.
RECURSIVE Base(_), Targets(_), Read(_)
Base(e) == IF e.tag = "variable_ref" THEN e.decls[1].id ELSE Base(e.sub[1])
Targets(e) == (IF IsBinary(e, Assignments) THEN {Base(e.sub[1])} ELSE {}) \cup UNION {Targets(e.sub[k]) : k \in DOMAIN e.sub}
Read(e) == (IF e.tag = "variable_ref" THEN {e.decls[1].id} ELSE {}) \cup UNION {Read(e.sub[k]) : k \in DOMAIN e.sub}
ChangesWhatItAssumes(e) ==
    \E k \in DOMAIN e.sub : LET axioms == generate_axiom_scope_tree(e, k)
                            IN  Targets(e.sub[k]) \cap UNION {Read(axioms[n]) : n \in DOMAIN axioms} # {}
AxiomsHold ==
    /\ stage = "executed"
    /\ Faithful(program.function.body)
    /\ ~Somewhere(program.function.body, ChangesWhatItAssumes)
    => Meaning(program.function.body).ok
=============================================================================
