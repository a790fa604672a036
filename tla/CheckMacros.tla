------------------------------- MODULE CheckMacros -------------------------------
(***************************************************************************)
(* CheckCheck: a CHECK or EXPECT macro whose condition is one comparison   *)
(* with a literal should be the macro of that comparison.  The condition   *)
(* is taken apart at its first comparison outside of parentheses.          *)
(***************************************************************************)
EXTENDS TokenLines

CONSTANT Literals \* the tokens that are literals

CHECK_MACROS == <<"DCHECK", "CHECK", "EXPECT_TRUE", "ASSERT_TRUE", "EXPECT_FALSE", "ASSERT_FALSE">>
Relational == {"==", "!=", ">=", ">", "<=", "<"}
Logical == {"&&", "||"}

(* Mutant: the comparison is turned around *)
Turned(op) ==
  CASE op = "<" -> ">" [] op = ">" -> "<" [] op = "<=" -> ">=" [] op = ">=" -> "<=" [] OTHER -> op

Negated(op) ==
  CASE op = "==" -> "!=" [] op = "!=" -> "==" [] op = ">=" -> "<"
    [] op = ">" -> "<="  [] op = "<=" -> ">"  [] op = "<" -> ">="

CHECK_REPLACEMENT(macro, op) == IF macro \in {"EXPECT_FALSE", "ASSERT_FALSE"} THEN Negated(op) ELSE op

(* The last use of the first macro of the list that is on the line *)
FindCheckMacro(line) ==
  LET uses == [m \in ToSet(CHECK_MACROS) |->
                 SelectLastInSeq([k \in 1..(Len(line) - 1) |-> SubSeq(line, k, k + 1)],
                                 LAMBDA pair : pair = <<m, "(">>)]
      found == SelectInSeq(CHECK_MACROS, LAMBDA m : uses[m] > 0)
  IN IF found = 0 THEN [macro |-> "none", at |-> 0]
     ELSE [macro |-> CHECK_MACROS[found], at |-> uses[CHECK_MACROS[found]]]

(* The first operator that is outside of parentheses and no shift *)
FirstOperator(expression) ==
  SelectInSeq([k \in 1..Len(expression) |->
                 [token |-> expression[k],
                  outside |-> Count(SubSeq(expression, 1, k), {"("}) = Count(SubSeq(expression, 1, k), {")"})]],
              LAMBDA x : x.outside /\ x.token \in Relational \cup Logical)

IsLiteral(side) == Len(side) = 1 /\ side[1] \in Literals

NoSuggestion == [macro |-> "none"]
CheckCheck(lines, n) ==
  LET check == FindCheckMacro(lines[n])
      close == CloseParen(lines, n, check.at + 1)
      Part(i) == SubSeq(lines[i], IF i = n THEN check.at + 2 ELSE 1,
                                  IF i = close.line THEN close.at - 1 ELSE Len(lines[i]))
      expression == FlattenSeq([i \in 1..(close.line - n + 1) |-> Part(n + i - 1)])
      k == FirstOperator(expression)
      lhs == SubSeq(expression, 1, k - 1)
      rhs == Behind(expression, k)
  IN IF /\ check.macro # "none"
        /\ close # NoPlace
        /\ close.at < Len(lines[close.line]) /\ lines[close.line][close.at + 1] = ";"
        /\ k > 0 /\ expression[k] \in Relational
        /\ lhs # <<>> /\ rhs # <<>>
        /\ Count(rhs, Logical) = 0
        /\ IsLiteral(lhs) \/ IsLiteral(rhs)
     THEN [macro |-> check.macro, replacement |-> CHECK_REPLACEMENT(check.macro, expression[k]),
           operator |-> k]
     ELSE NoSuggestion
==================================================================================
