------------------------------ MODULE QirText ------------------------------
(***************************************************************************)
(* The text form of modules, in which they travel between localities:      *)
(* pretty_printer.cpp writes it, parsing.cpp reads it.  Text is a sequence *)
(* of tokens; white space means nothing to the reader.                     *)
(***************************************************************************)
EXTENDS QtlPasses

Token(kind, text, num, type) == [kind |-> kind, text |-> text, num |-> num, type |-> type]
Word(text) == <<Token("word", text, 0, unknown)>>
Name(name) == <<Token("name", name, 0, unknown)>>
\* Literals are integers here: to_string keeps six decimals of any other.
Number(kind, n) == IF n < 0 THEN Word("-") \o <<Token(kind, "", 0 - n, unknown)>>
                   ELSE <<Token(kind, "", n, unknown)>>

\* The text of an operator and its precedence level.
translate_binary_op_tag ==
    [plus |-> "+", minus |-> "-", multiplies |-> "*", divides |-> "/", modulus |-> "%", div_floor |-> "//",
     assign |-> "=", plus_assign |-> "+=", equal_to |-> "==", not_equal_to |-> "!=", greater |-> ">",
     less |-> "<", greater_equal |-> ">=", less_equal |-> "<=", logical_and |-> "&&", logical_or |-> "||"]
translate_unary_op_tag == [plus |-> "+", negate |-> "-", logical_not |-> "!"]
statement == 0
qualifier == 7
unary == 6
\* A mutant: sums bind like products.
SumsBindLikeProducts(op) ==
    CASE op \in {"assign", "plus_assign"} -> 1
      [] op \in {"logical_and", "logical_or"} -> 2
      [] op \in {"equal_to", "not_equal_to", "greater", "less", "greater_equal", "less_equal"} -> 3
      [] OTHER -> 5
get_op_precedence_level(op) ==
    CASE op \in {"assign", "plus_assign"} -> 1
      [] op \in {"logical_and", "logical_or"} -> 2
      [] op \in {"equal_to", "not_equal_to", "greater", "less", "greater_equal", "less_equal"} -> 3
      [] op \in {"plus", "minus"} -> 4
      [] op \in {"multiplies", "divides", "modulus", "div_floor"} -> 5

\* A type is one token; the kinds without a text make printing throw.
print_type(type) ==
    IF type.kind \in {"double", "float", "integer", "bool", "array", "array_slice", "sparse_tensor"}
    THEN <<Token("type", "", 0, type)>> ELSE <<Token("error", "", 0, type)>>

bracket(text, enabled) == IF enabled THEN Word("(") \o text \o Word(")") ELSE text

\* The concatenation of texts with a separator.
Joined(texts, separator) ==
    Seqs!FoldLeft(LAMBDA text, new : IF text = <<>> THEN new ELSE text \o separator \o new, <<>>, texts)

RECURSIVE print(_, _)
Separately(e, from) == [k \in 1 .. (Len(e.sub) + 1 - from) |-> print(e.sub[k + from - 1], statement)]
PrintRange(lower, stride, upper) ==
    print(lower, statement) \o Word(":") \o print(stride, statement) \o Word(":") \o print(upper, statement)
PrintDeclaration(d) == Name(d.name) \o Word("::") \o print_type(d.type)

\* The tasks, and what has no text.
PrintTask(e, prec_level) ==
    CASE e.tag = "for" ->
           (IF e.name = "sequential" THEN <<>> ELSE Word(e.name)) \o Word("for") \o PrintDeclaration(e.decls[1])
           \o Word("in") \o PrintRange(e.sub[1], e.sub[3], e.sub[2]) \o print(e.sub[4], statement) \o Word("end")
      [] e.tag = "if" ->
           Word("if") \o print(e.sub[1], statement) \o print(e.sub[2], statement)
           \o (IF Len(e.sub) = 3 THEN Word("else") \o print(e.sub[3], statement) ELSE <<>>) \o Word("end")
      [] e.tag = "local_variable_def" ->
           Word("let") \o PrintDeclaration(e.decls[1]) \o Word("=") \o print(e.sub[1], statement)
      [] e.tag = "member_access" ->
           bracket(print(e.sub[1], qualifier) \o Word(".") \o Name(e.name), qualifier < prec_level)
      [] OTHER -> <<Token("error", "", 0, unknown)>>

print(e, prec_level) ==
    LET level == get_op_precedence_level(e.name)
    IN  CASE e.tag = "binary_operator" ->
               bracket(print(e.sub[1], level) \o Word(translate_binary_op_tag[e.name]) \o print(e.sub[2], level),
                       level < prec_level)
          [] e.tag = "unary_operator" ->
               bracket(Word(translate_unary_op_tag[e.name]) \o print(e.sub[1], unary), unary < prec_level)
          [] e.tag = "variable_ref" -> Name(e.decls[1].name)
          [] e.tag \in {"double_literal", "float_literal"} -> Number("real", e.num)
          [] e.tag = "integer_literal" -> Number("int", e.num)
          [] e.tag = "bool_literal" -> <<Token("bool", "", e.num, unknown)>>
          [] e.tag = "integer_range" -> PrintRange(e.sub[1], e.sub[3], e.sub[2])
          [] e.tag = "compound" /\ e.name = "sequential" -> Joined(Separately(e, 1), <<>>)
          [] e.tag = "compound" /\ e.name = "unordered" ->
               Word("unordered") \o Word("do") \o Joined(Separately(e, 1), <<>>) \o Word("end")
          [] e.tag = "subscription" ->
               bracket(print(e.sub[1], qualifier) \o Word("[") \o Joined(Separately(e, 2), Word(",")) \o Word("]"),
                       qualifier < prec_level)
          [] e.tag = "type_conversion" ->
               Name("convert") \o Word("{") \o print_type(e.type) \o Word("}")
               \o bracket(print(e.sub[1], statement), TRUE)
          [] e.tag = "intrinsic_function" -> Name(e.name) \o bracket(Joined(Separately(e, 1), Word(",")), TRUE)
          [] OTHER -> PrintTask(e, prec_level)

\* A function is [params, result, body].
pretty_print(func) ==
    Word("function") \o Name("entry")
    \o bracket(Joined([k \in DOMAIN func.params |-> PrintDeclaration(func.params[k])], Word(",")), TRUE)
    \o Word("->") \o PrintDeclaration(func.result) \o print(func.body, statement) \o Word("end")
printing_error(text) == \E k \in DOMAIN text : text[k].kind = "error"

----------------------------------------------------------------------------
(* The parser.  A result is [ok, e, i]: the expression and the position of *)
(* the next token.  A scope has the visible declarations and the names     *)
(* that its innermost level has declared; base is an identity beyond all   *)
(* those in use, and a declaration is identified by its position.          *)

keyword == {"for", "if", "else", "end", "module", "struct", "function", "let", "parallel", "unordered",
            "true", "false"}
\* id: the difference of identifiers and keywords refuses every name that a
\* keyword is a prefix of.
IsId(token) == /\ token.kind = "name"
               /\ \A k \in keyword : Len(token.text) < Len(k) \/ SubSeq(token.text, 1, Len(k)) # k

multiplication_op == [x \in {"*", "/", "%"} |->
                          CASE x = "*" -> "multiplies" [] x = "/" -> "divides" [] x = "%" -> "modulus"]
addition_op == [x \in {"+", "-"} |-> IF x = "+" THEN "plus" ELSE "minus"]
\* "<" and ">" are tried before "<=" and ">=", which therefore never match.
comparison_op == [x \in {"==", "!=", "<", ">"} |->
                      CASE x = "==" -> "equal_to" [] x = "!=" -> "not_equal_to"
                        [] x = "<" -> "less" [] x = ">" -> "greater"]
logical_op == [x \in {"and", "or"} |-> IF x = "and" THEN "logical_and" ELSE "logical_or"]
assignment_op == [x \in {"=", "+="} |-> IF x = "=" THEN "assign" ELSE "plus_assign"]
unary_op == [x \in {"+", "-", "not"} |-> CASE x = "+" -> "plus" [] x = "-" -> "negate" [] x = "not" -> "logical_not"]
Operators(level) == CASE level = 2 -> logical_op [] level = 3 -> comparison_op
                      [] level = 4 -> addition_op [] level = 5 -> multiplication_op

At(t, i) == IF i <= Len(t) THEN t[i] ELSE Token("end of text", "", 0, unknown)
Is(t, i, word) == At(t, i).kind = "word" /\ At(t, i).text = word
Found(e, i) == [ok |-> TRUE, e |-> e, i |-> i]
NotFound == [ok |-> FALSE]

\* Types with a parser: type_analyzer throws for all others.
ParsedType(type) == type.kind \in {"double", "float", "integer", "bool", "array"}

\* symbol_table
EmptyScope(base) == [vars |-> <<>>, own |-> {}, base |-> base, valid |-> TRUE]
enter_scope(sc) == [sc EXCEPT !.own = {}]
create_variable(t, i, sc) ==
    LET decl == variable_declaration(At(t, i).text, sc.base + i, At(t, i + 2).type)
    IN  [sc EXCEPT !.vars = (decl.name :> decl) @@ @, !.own = @ \cup {decl.name},
                   !.valid = @ /\ decl.name \notin sc.own /\ ParsedType(decl.type)]
lookup_variable(name, sc) == IF name \in DOMAIN sc.vars THEN variable_ref_expr(sc.vars[name]) ELSE Thrown
IsDeclaration(t, i) == IsId(At(t, i)) /\ Is(t, i + 1, "::") /\ At(t, i + 2).kind = "type"

\* An operator that goes on with what has been parsed takes that as a parameter.
RECURSIVE ParseOperators(_, _, _, _), ParseUnary(_, _, _), ParseQualifiers(_, _, _), ParseRest(_, _, _),
          NonTask(_, _, _), ParseBlock(_, _, _, _)

\* Binary operators nest to the right: the right operand is of the same level.
IsOperator(t, i, ops) == At(t, i).kind = "word" /\ At(t, i).text \in DOMAIN ops
OperationOf(op, left, right) ==
    IF right.ok THEN Found(binary_operator_expr(op, left.e, right.e), right.i) ELSE left
ParseOperator(level, t, sc, left) ==
    IF left.ok /\ IsOperator(t, left.i, Operators(level))
    THEN OperationOf(Operators(level)[At(t, left.i).text], left, ParseOperators(level, t, left.i + 1, sc))
    ELSE left
ParseOperators(level, t, i, sc) ==
    ParseOperator(level, t, sc, IF level = 5 THEN ParseUnary(t, i, sc) ELSE ParseOperators(level + 1, t, i, sc))
logical_expressions(t, i, sc) == ParseOperators(2, t, i, sc)

\* One expression or more, separated by commas.
EmptyList == [ok |-> FALSE, e |-> <<>>]
Longer(list, t, sc, next) ==
    IF next.ok THEN ParseRest(Found(Append(list.e, next.e), next.i), t, sc) ELSE list
ParseRest(list, t, sc) ==
    IF Is(t, list.i, ",") THEN Longer(list, t, sc, NonTask(t, list.i + 1, sc)) ELSE list
ParseList(t, i, sc) == Longer(EmptyList, t, sc, NonTask(t, i, sc))

Enclosed(t, inner) == IF inner.ok /\ Is(t, inner.i, ")") THEN Found(inner.e, inner.i + 1) ELSE NotFound
CallOf(name, t, args, otherwise) ==
    IF args.ok /\ Is(t, args.i, ")") THEN Found(intrinsic_function_expr(name, args.e), args.i + 1) ELSE otherwise
ParseBase(t, i, sc) ==
    LET token == At(t, i)
        variable_ == Found(lookup_variable(token.text, sc), i + 1)
    IN  CASE Is(t, i, "(") -> Enclosed(t, NonTask(t, i + 1, sc))
          [] token.kind = "name" ->
               IF ~IsId(token) THEN NotFound
               ELSE IF Is(t, i + 1, "(") THEN CallOf(token.text, t, ParseList(t, i + 2, sc), variable_)
               ELSE variable_
          [] token.kind = "real" -> Found(double_literal(token.num), i + 1)
          [] token.kind = "int" -> Found(integer_literal(token.num), i + 1)
          [] token.kind = "bool" -> Found(bool_literal(token.num = 1), i + 1)
          [] OTHER -> NotFound

\* Only accesses can be qualified.
Qualified(e, new, i) == Found(IF is_access(e) THEN new ELSE Thrown, i)
SubscriptionOf(base, t, list, sc) ==
    IF list.ok /\ Is(t, list.i, "]")
    THEN ParseQualifiers(Qualified(base.e, subscription_expr(base.e, list.e), list.i + 1), t, sc) ELSE base
ParseQualifiers(base, t, sc) ==
    IF ~base.ok THEN base
    ELSE IF Is(t, base.i, "[") THEN SubscriptionOf(base, t, ParseList(t, base.i + 1, sc), sc)
    ELSE IF Is(t, base.i, ".") /\ IsId(At(t, base.i + 1))
    THEN ParseQualifiers(Qualified(base.e, member_access_expr(base.e, At(t, base.i + 1).text), base.i + 2), t, sc)
    ELSE base

UnaryOf(op, arg) == IF arg.ok THEN Found(unary_operator_expr(op, arg.e), arg.i) ELSE NotFound
ParseUnary(t, i, sc) ==
    IF IsOperator(t, i, unary_op) THEN UnaryOf(unary_op[At(t, i).text], ParseUnary(t, i + 1, sc))
    ELSE ParseQualifiers(ParseBase(t, i, sc), t, sc)

\* lower : stride : upper, or lower : upper.
RangeBy(a, b, c) == IF c.ok THEN Found(integer_range_expr(a.e, c.e, b.e), c.i) ELSE NotFound
RangeTo(t, sc, a, b) ==
    IF ~b.ok THEN NotFound
    ELSE IF Is(t, b.i, ":") THEN RangeBy(a, b, logical_expressions(t, b.i + 1, sc))
    ELSE Found(integer_range_expr(a.e, b.e, integer_literal(1)), b.i)
RangeFrom(t, sc, a) ==
    IF a.ok /\ Is(t, a.i, ":") THEN RangeTo(t, sc, a, logical_expressions(t, a.i + 1, sc)) ELSE NotFound
ParseRange(t, i, sc) == RangeFrom(t, sc, logical_expressions(t, i, sc))
OrRange(a, range) == IF range.ok THEN range ELSE a
NonTaskFrom(t, sc, a) == IF a.ok THEN OrRange(a, RangeFrom(t, sc, a)) ELSE NotFound
NonTask(t, i, sc) == NonTaskFrom(t, sc, logical_expressions(t, i, sc))

\* Statements also return the scope behind them.
Statement(e, i, sc) == [ok |-> TRUE, e |-> e, i |-> i, sc |-> sc]
Checked(e, sc) == IF sc.valid THEN e ELSE Thrown
ForBody(t, order, idx, range, body, sc) ==
    IF ~Is(t, body.i, "end") THEN NotFound
    ELSE Statement(Checked(for_expr(order, idx, range.e.sub[1], range.e.sub[2], range.e.sub[3], body.e), body.sc),
                   body.i + 1, sc)
ForRange(t, order, name, loop, range, sc) ==
    IF range.ok THEN ForBody(t, order, loop.vars[name], range, ParseBlock(<<>>, t, range.i, loop), sc) ELSE NotFound
ForFrom(t, order, i, loop, sc) ==
    IF ~Is(t, i, "for") \/ ~IsDeclaration(t, i + 1) \/ ~Is(t, i + 4, "in") THEN NotFound
    ELSE ForRange(t, order, At(t, i + 1).text, loop, ParseRange(t, i + 5, loop), sc)
ParseFor(t, i, sc) ==
    LET head == IF Is(t, i, "for") THEN i ELSE i + 1
    IN  ForFrom(t, IF head = i THEN "sequential" ELSE At(t, i).text, head,
                create_variable(t, head + 1, enter_scope(sc)), sc)
IfElse(t, cond, then, else, sc) ==
    IF ~Is(t, else.i, "end") THEN NotFound
    ELSE Statement(Checked(if_expr(<<cond.e, then.e, else.e>>), else.sc), else.i + 1, sc)
IfThen(t, cond, then, sc) ==
    IF Is(t, then.i, "end") THEN Statement(Checked(if_expr(<<cond.e, then.e>>), then.sc), then.i + 1, sc)
    ELSE IF Is(t, then.i, "else") THEN IfElse(t, cond, then, ParseBlock(<<>>, t, then.i + 1, then.sc), sc)
    ELSE NotFound
IfCondition(t, cond, sc) ==
    IF cond.ok THEN IfThen(t, cond, ParseBlock(<<>>, t, cond.i, enter_scope(sc)), sc) ELSE NotFound
ParseIf(t, i, sc) == IfCondition(t, NonTask(t, i + 1, enter_scope(sc)), sc)
LetInit(decl, init, let) ==
    IF init.ok THEN Statement(Checked(local_variable_def_expr(decl, init.e), let), init.i, let) ELSE NotFound
LetFrom(t, i, let) == LetInit(let.vars[At(t, i + 1).text], NonTask(t, i + 5, let), let)
ParseLet(t, i, sc) ==
    IF ~IsDeclaration(t, i + 1) \/ ~Is(t, i + 4, "=") THEN NotFound ELSE LetFrom(t, i, create_variable(t, i + 1, sc))
AssignmentOf(op, lhs, rhs, sc) ==
    IF rhs.ok THEN Statement(binary_operator_expr(op, lhs.e, rhs.e), rhs.i, sc) ELSE NotFound
AssignmentTo(t, lhs, sc) ==
    IF lhs.ok /\ IsOperator(t, lhs.i, assignment_op)
    THEN AssignmentOf(assignment_op[At(t, lhs.i).text], lhs, NonTask(t, lhs.i + 1, sc), sc) ELSE NotFound
ParseAssignment(t, i, sc) == AssignmentTo(t, NonTask(t, i, sc), sc)
ParseStatement(t, i, sc) ==
    CASE \E word \in {"for", "parallel", "unordered"} : Is(t, i, word) -> ParseFor(t, i, sc)
      [] Is(t, i, "if") -> ParseIf(t, i, sc)
      [] Is(t, i, "let") -> ParseLet(t, i, sc)
      [] OTHER -> ParseAssignment(t, i, sc)
BlockFrom(done, next, t, i, sc) ==
    IF next.ok THEN ParseBlock(Append(done, next.e), t, next.i, next.sc)
    ELSE Statement(sequenced_tasks(done), i, sc)
ParseBlock(done, t, i, sc) == BlockFrom(done, ParseStatement(t, i, sc), t, i, sc)

\* The parameters, from position i on: declarations separated by commas.
RECURSIVE ParseParameters(_, _, _, _)
ParseParameters(done, t, i, sc) ==
    LET new == create_variable(t, i, sc)
        params == Append(done, new.vars[At(t, i).text])
    IN  IF ~IsDeclaration(t, i) THEN [params |-> done, i |-> i, sc |-> sc]
        ELSE IF Is(t, i + 3, ",") THEN ParseParameters(params, t, i + 4, new)
        ELSE [params |-> params, i |-> i + 3, sc |-> new]

\* The function of a text, or <<>> for an exception.
FunctionOf(t, params, result, block) ==
    IF ~(Is(t, block.i, "end") /\ block.i = Len(t)) THEN <<>>
    ELSE IF ~block.sc.valid \/ Throws(block.e) THEN <<>>
    ELSE [params |-> params, result |-> result, body |-> block.e]
FunctionFrom(t, head) ==
    LET scope == create_variable(t, head.i + 2, head.sc)
    IN  IF ~(Is(t, head.i, ")") /\ Is(t, head.i + 1, "->") /\ IsDeclaration(t, head.i + 2)) THEN <<>>
        ELSE FunctionOf(t, head.params, scope.vars[At(t, head.i + 2).text], ParseBlock(<<>>, t, head.i + 5, scope))
parse_qir(t, base) ==
    IF ~(Is(t, 1, "function") /\ IsId(At(t, 2)) /\ Is(t, 3, "(")) THEN <<>>
    ELSE FunctionFrom(t, ParseParameters(<<>>, t, 4, EmptyScope(base)))
=============================================================================
