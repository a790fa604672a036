------------------------------- MODULE CheckTexts -------------------------------
(***************************************************************************)
(* CHECK macros with conditions of up to three operands and what they mean *)
(* by the precedence of their operators, which CheckCheck knows nothing    *)
(* of.  An operand is a name, a literal or two of them in parentheses.     *)
(***************************************************************************)
EXTENDS CheckMacros

Flat(operands, ops) == [operands |-> operands, ops |-> ops]
Atoms == {"a", "b", "1"}
IsAtom(operand) == operand.operands = <<>>
Atom(name) == [name |-> name, operands |-> <<>>, ops |-> <<>>]
Group(first, op, second) == [name |-> "group", operands |-> <<Atom(first), Atom(second)>>, ops |-> <<op>>]

(* The tokens of operands and the operators between them *)
AtomOrGroup(operand) ==
  IF IsAtom(operand) THEN <<operand.name>>
  ELSE <<"(", operand.operands[1].name, operand.ops[1], operand.operands[2].name, ")">>
TokensOf(flat) ==
  FlattenSeq([i \in 1..Len(flat.operands) |->
    (IF i = 1 THEN <<>> ELSE <<flat.ops[i - 1]>>) \o AtomOrGroup(flat.operands[i])])

Precedence(op) ==
  CASE op = "||" -> 1 [] op = "&&" -> 2 [] op = "&" -> 3
    [] op \in {"==", "!="} -> 4 [] op \in {"<", "<=", ">", ">="} -> 5 [] op = "<<" -> 6

Truth(b) == IF b THEN 1 ELSE 0
Holds(op, x, y) ==
  CASE op = "==" -> x = y [] op = "!=" -> x # y [] op = "<" -> x < y
    [] op = "<=" -> x <= y [] op = ">" -> x > y [] op = ">=" -> x >= y
    [] op = "&&" -> x # 0 /\ y # 0 [] op = "||" -> x # 0 \/ y # 0

Apply(op, x, y) ==
  CASE op = "<<" -> x * (2 ^ y)
    [] op = "&"  -> FoldSet(LAMBDA bit, sum : sum + bit, 0,
                            {bit \in {1, 2, 4, 8, 16} : (x \div bit) % 2 = 1 /\ (y \div bit) % 2 = 1})
    [] OTHER     -> Truth(Holds(op, x, y))

(* The operator that is applied last: the last one of those that bind least *)
Root(ops) ==
  LET least == Min({Precedence(ops[i]) : i \in DOMAIN ops})
  IN Max({i \in DOMAIN ops : Precedence(ops[i]) = least})

RECURSIVE Value(_, _, _)
Value(operands, ops, env) ==
  IF ops = <<>>
  THEN LET x == operands[1]
       IN IF IsAtom(x) THEN env[x.name] ELSE Value(x.operands, x.ops, env)
  ELSE LET r == Root(ops)
       IN Apply(ops[r], Value(SubSeq(operands, 1, r), SubSeq(ops, 1, r - 1), env),
                        Value(Behind(operands, r), Behind(ops, r), env))

Environments == {[a |-> x, b |-> y] @@ [c \in {"1"} |-> 1] : x \in 0..2, y \in 0..2}

-----------------------------------------------------------------------------
(* A statement: its macro, its condition, what follows the parenthesis and *)
(* whether a line ends behind each operator                                *)

StatementLines(s) ==
  LET operands == s.condition.operands
      Piece(i) == AtomOrGroup(operands[i]) \o (IF i = Len(operands) THEN <<>> ELSE <<s.condition.ops[i]>>)
      pieces == [i \in 1..Len(operands) |->
                   (IF i = 1 THEN <<s.macro, "(">> ELSE <<>>) \o Piece(i)
                     \o (IF i = Len(operands) THEN <<")">> \o s.rest ELSE <<>>)]
  IN IF s.split THEN pieces ELSE <<FlattenSeq(pieces)>>

(* The number of the operator of the condition that is its token k *)
OperatorAt(condition, k) ==
  CHOOSE r \in DOMAIN condition.ops :
    k = Len(TokensOf(Flat(SubSeq(condition.operands, 1, r), SubSeq(condition.ops, 1, r - 1)))) + 1

Passes(macro, value) == IF macro = "EXPECT_FALSE" THEN value = 0 ELSE value # 0

(* The suggested macro with the two sides of the operator passes whenever  *)
(* the one that is written does                                            *)
KeepsMeaning(s, suggestion) ==
  LET c == s.condition
      r == OperatorAt(c, suggestion.operator)
  IN \A env \in Environments :
       Passes(s.macro, Value(c.operands, c.ops, env)) <=>
         Holds(suggestion.replacement,
               Value(SubSeq(c.operands, 1, r), SubSeq(c.ops, 1, r - 1), env),
               Value(Behind(c.operands, r), Behind(c.ops, r), env))

Comparisons(condition) == {r \in DOMAIN condition.ops : condition.ops[r] \in Relational}
LiteralAt(condition, i) == condition.operands[i] = Atom("1")

(* One comparison of everything on both sides, with a literal on one       *)
Replaceable(condition) ==
  \E r \in Comparisons(condition) :
    /\ Comparisons(condition) = {r} /\ Root(condition.ops) = r
    /\ \/ r = 1 /\ LiteralAt(condition, 1)
       \/ r = Len(condition.ops) /\ LiteralAt(condition, r + 1)

(* What the suggestion gets wrong: operators that bind less than a         *)
(* comparison, and a second comparison behind a literal and the first      *)
Misread(condition) ==
  \/ "&" \in ToSet(condition.ops)
  \/ LiteralAt(condition, 1) /\ Cardinality(Comparisons(condition)) > 1

LogicalRight(condition) ==
  \E i \in 2..Len(condition.operands) : ToSet(condition.operands[i].ops) \cap Logical # {}

-----------------------------------------------------------------------------
Operands == {Atom(name) : name \in Atoms} \cup {Group("a", "&&", "b"), Group("a", "==", "1")}
Ops == {"==", "<", ">=", "&", "&&", "<<"}
Conditions ==
  {Flat(<<x>>, <<>>) : x \in Operands}
    \cup {Flat(<<x, y>>, <<op>>) : x \in Operands, y \in Operands, op \in Ops \cup {"!=", ">", "<=", "||"}}
    \cup {Flat(<<x, y, z>>, <<p, q>>) : x \in Operands, y \in Operands, z \in Operands, p \in Ops, q \in Ops}

CheckStatements ==
  {[macro |-> macro, condition |-> condition, rest |-> rest, split |-> split] :
     macro \in {"CHECK", "EXPECT_FALSE"}, condition \in Conditions,
     rest \in {<<";">>, <<"<<", "a", ";">>}, split \in BOOLEAN}
=================================================================================
