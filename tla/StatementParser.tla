---------------------------- MODULE StatementParser ----------------------------
(***************************************************************************)
(* The statements of C++ that CheckBraces, CheckTrailingSemicolon and      *)
(* CheckEmptyBlockBody are about, parsed by their grammar.  It is what the *)
(* reports of these checks are compared with, no part of the linter.       *)
(*                                                                         *)
(* A line is [indent, tokens, comment]: its tokens, with "x" for every     *)
(* name and "M" for one in capitals, and whether a comment ends it.        *)
(***************************************************************************)
EXTENDS Integers, SequencesExt, TLC

Blank == [indent |-> 0, tokens |-> <<>>, comment |-> FALSE]

(* The tokens of a file in their order, each with its line *)
Tokens(file) ==
  FlattenSeq([n \in 1..Len(file) |->
    [p \in 1..Len(file[n].tokens) |-> [token |-> file[n].tokens[p], line |-> n, first |-> p = 1]]])

Tok(s, i) == IF i \in 1..Len(s) THEN s[i].token ELSE "eof"

(* The first place from i on that is not a name *)
SkipNames(s, i) ==
  CHOOSE j \in i..(Len(s) + 1) : Tok(s, j) # "x" /\ \A k \in i..(j - 1) : Tok(s, k) = "x"

(* Behind the names in parentheses at i, 0 if there are none *)
Condition(s, i) ==
  LET j == SkipNames(s, i + 1)
  IN IF Tok(s, i) = "(" /\ Tok(s, j) = ")" THEN j + 1 ELSE 0

(* A statement: where it is, what is behind it, and, of a statement that   *)
(* controls others, what is behind the condition, the statement that is    *)
(* its body, the place of its else and the statement behind that.          *)
Statement(kind, at, next) ==
  [kind |-> kind, at |-> at, next |-> next, condition |-> 0, body |-> 0, else |-> 0]
NoStatement == Statement("none", 0, 0)

(* What starts at i, "table" being what starts at the places behind i, and *)
(* "end" of a place where the statements from there on end                 *)
At(table, i) ==
  IF i \in DOMAIN table THEN table[i] ELSE [statement |-> NoStatement, end |-> 0]
BehindAt(table, i) == At(table, i).statement.next

Simple(s, i) ==
  LET j == SkipNames(s, i)
  IN IF Tok(s, j) = ";" THEN Statement("simple", i, j + 1) ELSE NoStatement

Block(s, i, table) ==
  LET end == At(table, i + 1).end
  IN IF Tok(s, end) = "}" THEN Statement("block", i, end + 1) ELSE NoStatement

If(s, i, table) ==
  LET body == Condition(s, i + 1)
      next == BehindAt(table, body)
      behind == IF Tok(s, next) = "else" THEN BehindAt(table, next + 1) ELSE next
  IN IF behind = 0 THEN NoStatement
     ELSE [Statement("if", i, behind) EXCEPT
             !.condition = body, !.body = body, !.else = IF behind = next THEN 0 ELSE next]

Loop(s, i, table) ==
  LET body == Condition(s, i + 1)
      next == BehindAt(table, body)
  IN IF next = 0 THEN NoStatement
     ELSE [Statement("loop", i, next) EXCEPT !.condition = body, !.body = body]

Do(s, i, table) ==
  LET while == BehindAt(table, i + 1)
      end == Condition(s, while + 1)
  IN IF Tok(s, while) = "while" /\ Tok(s, end) = ";"
     THEN [Statement("do", i, end + 1) EXCEPT !.body = i + 1] ELSE NoStatement

(* A macro with a block, and a semicolon if it needs one *)
Macro(s, i, table) ==
  LET body == Condition(s, i + 1)
      next == IF Tok(s, body) = "{" THEN BehindAt(table, body) ELSE 0
  IN IF next = 0 THEN NoStatement
     ELSE [Statement("macro", i, IF Tok(s, next) = ";" THEN next + 1 ELSE next) EXCEPT !.body = body]

StatementAt(s, i, table) ==
  CASE Tok(s, i) \in {"x", ";"}       -> Simple(s, i)
    [] Tok(s, i) = "{"                -> Block(s, i, table)
    [] Tok(s, i) = "if"               -> If(s, i, table)
    [] Tok(s, i) \in {"while", "for"} -> Loop(s, i, table)
    [] Tok(s, i) = "do"               -> Do(s, i, table)
    [] Tok(s, i) = "M"                -> Macro(s, i, table)
    [] OTHER                          -> NoStatement

EndAt(s, i, next, table) == IF Tok(s, i) \in {"}", "eof"} THEN i ELSE At(table, next).end

WithPlace(s, i, table) ==
  LET statement == StatementAt(s, i, table)
  IN (i :> [statement |-> statement, end |-> EndAt(s, i, statement.next, table)]) @@ table

(* What starts at the last places of s, from the end to the start          *)
Table(s) ==
  LET last[n \in 0..(Len(s) + 1)] ==
        IF n = 0 THEN <<>> ELSE WithPlace(s, Len(s) + 2 - n, last[n - 1])
  IN last[Len(s) + 1]

(* The statements that one has in it, or behind it where it is in a list *)
Follows(i, statement) ==
  i \in {statement.body, statement.next, statement.else + 1}
    \cup (IF statement.kind = "block" THEN {statement.at + 1} ELSE {})

(* The while of a do, and the semicolon of a macro: none of their own *)
Belongs(i, statement, table) ==
  /\ statement.kind \in {"do", "macro"}
  /\ i = BehindAt(table, statement.body) /\ i < statement.next

WithStatement(i, table, found) ==
  IF /\ table[i].statement # NoStatement
     /\ i = 1 \/ \E x \in found : Follows(i, x)
     /\ \A x \in found : ~Belongs(i, x, table)
  THEN found \cup {table[i].statement} ELSE found

(* The statements of a file, none of it if it has anything else *)
Statements(s, table) ==
  LET first[i \in 0..Len(s)] == IF i = 0 THEN {} ELSE WithStatement(i, table, first[i - 1])
  IN IF table[1].end = Len(s) + 1 THEN first[Len(s)] ELSE {}

Parse(file) ==
  UNION {Statements(s, table) : <<s, table>> \in {<<s, Table(s)>> : s \in {Tokens(file)}}}

WellFormed(file) == \A s \in {Tokens(file)} : Table(s)[1].end = Len(s) + 1
===============================================================================
