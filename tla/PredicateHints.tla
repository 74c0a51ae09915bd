----------------------------- MODULE PredicateHints -----------------------------
(***************************************************************************)
(* ParsePredicateStringToJson: the hint that delta_share_list_files makes  *)
(* of a predicate, beside what the predicate means in SQL and what a       *)
(* server may make of the hint.                                            *)
(*                                                                         *)
(* An expression is a tree of records with an op and, below it, children   *)
(* or a name or a value; a hint is one, too. What the translation does not *)
(* know becomes a null node, also inside a hint.                           *)
(*                                                                         *)
(* Values are numbers, and texts are numbers written down, whose order is  *)
(* not that of the numbers: 10 is before 2 as text. Null stands for NULL.  *)
(***************************************************************************)
EXTENDS Integers, Sequences

CONSTANTS
    Columns,
    NumericColumns, \* the columns that hold numbers; the others hold texts
    Values,         \* what a column may hold, but for NULL
    TextRank,       \* the place of each value, as text, among texts
    Nesting         \* bound: how deep and, or and not are nested

Null == 0

ASSUME PredicateHintsAssumption ==
    /\ NumericColumns \subseteq Columns
    /\ Values \subseteq Int \ {Null}
    /\ TextRank \in [Values \cup {Null} -> Int]
    /\ \A v, w \in Values : TextRank[v] = TextRank[w] => v = w
    /\ Nesting \in Nat

-------------------------------------------------------------------------------
\* Trees

Compound(trees) ==
    [op : {"and", "or"}, children : Seq(trees)] \cup [op : {"not"}, children : [{1} -> trees]]

\* The trees over these leaves that are nested at most so deep.
Nested(leaves, depth) ==
    LET to[n \in Nat] == IF n = 0 THEN leaves ELSE leaves \cup Compound(to[n - 1])
    IN  to[depth]

-------------------------------------------------------------------------------
\* Expressions, as the parser returns them

Column(name)          == [op |-> "column", name |-> name]
Call(name)            == [op |-> "call", name |-> name]    \* any function of a column
Constant(value, type) == [op |-> "constant", value |-> value, type |-> type]
Expr(op, children)    == [op |-> op, children |-> children]

Comparisons == {"equal", "notEqual", "lessThan", "lessThanOrEqual",
                "greaterThan", "greaterThanOrEqual"}

Operands ==
    [op : {"column", "call"}, name : Columns]
        \cup [op : {"constant"}, value : Values, type : {"number", "decimal", "varchar"}]
        \cup {Constant(Null, "null")}

Tests ==
    [op : Comparisons, children : [1..2 -> Operands]]
        \cup [op : {"isNull", "isNotNull"}, children : [{1} -> Operands]]
        \cup [op : {"between"}, children : [1..3 -> Operands]]

Expressions == Nested(Tests, Nesting)

\* The predicate of a call without one, with a NULL, or with an empty text.
NoPredicate == [op |-> "none"]

\* A text the parser refuses.
Unparsable == [op |-> "unparsable"]

\* A text may hold several expressions with commas between them.
ParsedTexts ==
    {NoPredicate, Unparsable} \cup Expressions \cup [op : {"list"}, children : Seq(Expressions)]

-------------------------------------------------------------------------------
\* The translation

NullHint == [op |-> "null"]
Hint(op, children) == [op |-> op, children |-> children]

ValueType(type) == IF type = "number" THEN "int" ELSE "string"

ParsedOperandJSON(expr) ==
    CASE expr.op = "column"   -> [op |-> "column", name |-> expr.name, valueType |-> "string"]
      [] expr.op = "constant" -> [op |-> "literal", value |-> expr.value,
                                  valueType |-> ValueType(expr.type)]
      [] OTHER                -> NullHint

ParsedBinaryOpJSON(expr, op) ==
    Hint(op, <<ParsedOperandJSON(expr.children[1]), ParsedOperandJSON(expr.children[2])>>)

\* <> is a negated equality.
ComparisonHint(expr) ==
    IF expr.op = "notEqual" THEN Hint("not", <<ParsedBinaryOpJSON(expr, "equal")>>)
    ELSE ParsedBinaryOpJSON(expr, expr.op)

IsNullHint(expr) == Hint("isNull", <<ParsedOperandJSON(expr.children[1])>>)

\* Faulty: the bounds are taken as excluded.
BetweenHintOpen(expr) ==
    LET input == ParsedOperandJSON(expr.children[1])
    IN  Hint("and", <<Hint("greaterThan", <<input, ParsedOperandJSON(expr.children[2])>>),
                      Hint("lessThan", <<input, ParsedOperandJSON(expr.children[3])>>)>>)

BetweenHint(expr) ==
    LET input == ParsedOperandJSON(expr.children[1])
    IN  Hint("and",
             <<Hint("greaterThanOrEqual", <<input, ParsedOperandJSON(expr.children[2])>>),
               Hint("lessThanOrEqual", <<input, ParsedOperandJSON(expr.children[3])>>)>>)

TestHint(expr) ==
    CASE expr.op \in Comparisons -> ComparisonHint(expr)
      [] expr.op = "isNull"      -> IsNullHint(expr)
      [] expr.op = "isNotNull"   -> Hint("not", <<IsNullHint(expr)>>)
      [] expr.op = "between"     -> BetweenHint(expr)
      [] OTHER                   -> NullHint

ParseParsedExpressionHint[expr \in Expressions] ==
    IF expr.op \in {"and", "or"}
    THEN Hint(expr.op, [i \in DOMAIN expr.children |-> ParseParsedExpressionHint[expr.children[i]]])
    ELSE TestHint(expr)

ParsePredicateStringToJson(predicate) ==
    CASE predicate.op = "none" -> NullHint
      [] predicate.op = "list" ->
            Hint("and", [i \in DOMAIN predicate.children |->
                            ParseParsedExpressionHint[predicate.children[i]]])
      [] OTHER                 -> ParseParsedExpressionHint[predicate]

-------------------------------------------------------------------------------
\* Truth with NULL

Truths == {"T", "F", "N"}

Neg(truth) == CASE truth = "T" -> "F" [] truth = "F" -> "T" [] OTHER -> "N"

Conj(truths) == IF "F" \in truths THEN "F" ELSE IF "N" \in truths THEN "N" ELSE "T"
Disj(truths) == IF "T" \in truths THEN "T" ELSE IF "N" \in truths THEN "N" ELSE "F"

Truth(holds) == IF holds THEN "T" ELSE "F"

Compared(op, x, y) ==
    CASE op = "equal"              -> x = y
      [] op = "notEqual"           -> x # y
      [] op = "lessThan"           -> x < y
      [] op = "lessThanOrEqual"    -> x <= y
      [] op = "greaterThan"        -> x > y
      [] op = "greaterThanOrEqual" -> x >= y

ComparedAs(texts, op, x, y) ==
    IF texts THEN Compared(op, TextRank[x], TextRank[y]) ELSE Compared(op, x, y)

PossibleRows == [Columns -> Values \cup {Null}]

-------------------------------------------------------------------------------
\* SQL (external): what the predicate says of a row.

Operand(expr, row) == IF expr.op = "constant" THEN expr.value ELSE row[expr.name]

IsText(expr) ==
    IF expr.op = "constant" THEN expr.type \in {"varchar", "null"}
    ELSE expr.name \notin NumericColumns

\* Values are compared as numbers unless all that are compared are texts.
AmongTexts(test) == \A i \in DOMAIN test.children : IsText(test.children[i])

SqlCompare(texts, op, x, y) ==
    IF Null \in {x, y} THEN "N" ELSE Truth(ComparedAs(texts, op, x, y))

SqlTest(test, row) ==
    LET arg(i)         == Operand(test.children[i], row)
        compared(op, i) == SqlCompare(AmongTexts(test), op, arg(1), arg(i))
    IN  CASE test.op \in Comparisons -> compared(test.op, 2)
          [] test.op = "isNull"      -> Truth(arg(1) = Null)
          [] test.op = "isNotNull"   -> Truth(arg(1) # Null)
          [] test.op = "between"     -> Conj({compared("greaterThanOrEqual", 2),
                                              compared("lessThanOrEqual", 3)})

Sql[expr \in Expressions] == [row \in PossibleRows |->
    LET all == {Sql[expr.children[i]][row] : i \in DOMAIN expr.children}
    IN  CASE expr.op = "and" -> Conj(all)
          [] expr.op = "or"  -> Disj(all)
          [] expr.op = "not" -> Neg(Sql[expr.children[1]][row])
          [] OTHER           -> SqlTest(expr, row)]

\* A predicate selects a row.
Selects(predicate, row) ==
    CASE predicate.op = "none" -> TRUE
      [] predicate.op = "list" ->
            \A i \in DOMAIN predicate.children : Sql[predicate.children[i]][row] = "T"
      [] OTHER                 -> Sql[predicate][row] = "T"

-------------------------------------------------------------------------------
\* The server (external): what a hint may be taken to say of a row. A leaf is read as
\* its valueType says. A node that is null or ill-typed may be taken for anything, but
\* the server knows that.

HintOperands ==
    {NullHint}
        \cup [op : {"column"}, name : Columns, valueType : {"string"}]
        \cup [op : {"literal"}, value : Values \cup {Null}, valueType : {"int", "string"}]

HintTests ==
    {NullHint}
        \cup [op : Comparisons, children : [1..2 -> HintOperands]]
        \cup [op : {"isNull"}, children : [{1} -> HintOperands]]

\* A hint's nesting: a test may become a negation or a conjunction, and several
\* expressions one hint.
Hints == Nested(HintTests, Nesting + 2)

Leaf(hint, row) == IF hint.op = "literal" THEN hint.value ELSE row[hint.name]

Readable(left, right) ==
    /\ left # NullHint /\ right # NullHint
    /\ left.valueType = right.valueType

\* As text, a literal NULL is four letters.
ReadAs(hint, row) ==
    LET left  == hint.children[1]
        right == hint.children[2]
        x     == Leaf(left, row)
        y     == Leaf(right, row)
        missing == \/ left.op = "column" /\ x = Null
                   \/ right.op = "column" /\ y = Null
    IN  IF missing THEN "N" ELSE Truth(ComparedAs(left.valueType = "string", hint.op, x, y))

TestTakenFor(hint, row) ==
    CASE hint.op \in Comparisons /\ Readable(hint.children[1], hint.children[2]) ->
            {ReadAs(hint, row)}
      [] hint.op = "isNull" /\ hint.children[1].op = "column" ->
            {Truth(row[hint.children[1].name] = Null)}
      [] OTHER -> Truths

TakenFor[hint \in Hints] == [row \in PossibleRows |->
    LET choices == {f \in [DOMAIN hint.children -> Truths] :
                       \A i \in DOMAIN f : f[i] \in TakenFor[hint.children[i]][row]}
    IN  CASE hint.op = "not" -> {Neg(t) : t \in TakenFor[hint.children[1]][row]}
          [] hint.op = "and" -> {Conj({f[i] : i \in DOMAIN f}) : f \in choices}
          [] hint.op = "or"  -> {Disj({f[i] : i \in DOMAIN f}) : f \in choices}
          [] OTHER           -> TestTakenFor(hint, row)]

\* A server drops a file only when the hint can be true of none of its rows.
MayDrop(hint, row) == "T" \notin TakenFor[hint][row]

-------------------------------------------------------------------------------
\* The predicates that a server cannot misread

CalledText(expr) ==
    \/ expr.op = "column"
    \/ expr.op = "constant" /\ ValueType(expr.type) = "string"

\* No two things that a hint calls texts are compared as numbers: a column of numbers
\* with a quoted number, a decimal or another column. Every column is called a text in a
\* hint, so a server would compare such a pair as texts.
CalledRight(test) ==
    \A i, j \in DOMAIN test.children :
        (i # j /\ CalledText(test.children[i]) /\ CalledText(test.children[j]))
            => AmongTexts(test)

ExpressionsCalledRight == Nested({test \in Tests : CalledRight(test)}, Nesting)

NumbersAmongNumbers(predicate) ==
    \/ predicate = NoPredicate
    \/ predicate \in ExpressionsCalledRight
    \/ predicate.op = "list" /\ predicate.children \in Seq(ExpressionsCalledRight)

===============================================================================
