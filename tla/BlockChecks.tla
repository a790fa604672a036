------------------------------ MODULE BlockChecks ------------------------------
(***************************************************************************)
(* CheckBraces, CheckTrailingSemicolon and CheckEmptyBlockBody: the checks *)
(* of a line that look for braces, semicolons and bodies, most of them on  *)
(* other lines than the one that is processed.                             *)
(*                                                                         *)
(* Tokens are those of StatementParser; what only a character tells apart  *)
(* (blanks between tokens, line continuations, lambdas, preprocessor       *)
(* lines, initializers) is left out.  "lines" has no markers: lines 0 and  *)
(* Len(lines) + 1 are the ones of ProcessFileData, blank here.  The NOLINT *)
(* comments that are parsed with each line, and ahead of a semicolon       *)
(* (3895-3900), are those of LintFile: they decide what is printed of the  *)
(* reports.                                                                *)
(***************************************************************************)
EXTENDS StatementParser

CONSTANTS
  Texts,   \* the sets of lines a file may be made of, by name
  MaxLines \* bound on the length of a file

VARIABLES
  check,   \* what is next: "write", the name of a check, or "done"
  source,  \* the set the file is written with
  lines,   \* the file
  linenum, \* the line that is processed
  reports  \* [check, line]

vars == <<check, source, lines, linenum, reports>>

Init ==
  /\ check = "write"
  /\ source \in DOMAIN Texts
  /\ lines = <<>>
  /\ linenum = 1
  /\ reports = {}

-----------------------------------------------------------------------------
(* Lines and brackets *)

NumLines == Len(lines) + 2
Line(n) == IF n \in 1..Len(lines) THEN lines[n] ELSE Blank
TokensOf(n) == Line(n).tokens
HasAt(s, p, tokens) == p + Len(tokens) - 1 <= Len(s) /\ SubSeq(s, p, p + Len(tokens) - 1) = tokens
Has(s, tokens) == \E p \in 1..Len(s) : HasAt(s, p, tokens)
FirstAt(s, tokens) ==
  CHOOSE p \in 1..Len(s) : HasAt(s, p, tokens) /\ \A q \in 1..(p - 1) : ~HasAt(s, q, tokens)
LastAt(s, tokens) ==
  CHOOSE p \in 1..Len(s) : HasAt(s, p, tokens) /\ \A q \in (p + 1)..Len(s) : ~HasAt(s, q, tokens)
Behind(s, p) == SubSeq(s, p + 1, Len(s))

(* An empty line has no indentation *)
GetIndentLevel(n) == IF TokensOf(n) = <<>> THEN 0 ELSE Line(n).indent

(* The tokens of the last line before n that is not blank, none if there   *)
(* is no such line                                                         *)
GetPreviousNonBlankLine(n) ==
  LET before == {m \in 1..(n - 1) : TokensOf(m) # <<>>}
  IN IF before = {} THEN <<>> ELSE TokensOf(CHOOSE m \in before : \A k \in before : k <= m)

LastToken(s) == IF s = <<>> THEN "none" ELSE Last(s)

(* The place after the bracket that closes the one at token p of line n:   *)
(* [num, pos, rest].  If there is none, num is NumLines, pos 0, and rest   *)
(* the end of the line where the search gave up.                           *)
Opening == {"(", "{"}
Closing == {")", "}"}
Matching(token) == IF token = ")" THEN "(" ELSE "{"

RECURSIVE FindEnd(_, _, _)
FindEnd(n, p, stack) ==
  LET s == TokensOf(n)
      lost == [num |-> NumLines, pos |-> 0, rest |-> IF s = <<>> THEN <<>> ELSE <<Last(s)>>]
  IN IF p > Len(s)
     THEN IF n < NumLines - 1 THEN FindEnd(n + 1, 1, stack) ELSE lost
     ELSE IF s[p] \in Opening THEN FindEnd(n, p + 1, Append(stack, s[p]))
     ELSE IF s[p] \notin Closing THEN FindEnd(n, p + 1, stack)
     ELSE IF Last(stack) # Matching(s[p]) THEN lost
     ELSE IF Len(stack) = 1 THEN [num |-> n, pos |-> p, rest |-> Behind(s, p)]
     ELSE FindEnd(n, p + 1, Front(stack))

CloseExpression(n, p) == FindEnd(n, p, <<>>)

(* The place of the parenthesis that the one at token p of line n closes *)
ReverseCloseExpression(n, p) ==
  {place \in UNION {{<<m, q>> : q \in 1..Len(TokensOf(m))} : m \in 1..n} :
     /\ TokensOf(place[1])[place[2]] = "("
     /\ LET end == CloseExpression(place[1], place[2]) IN end.num = n /\ end.pos = p}

Report(name, n) == {[check |-> name, line |-> n]}
When(condition, report) == IF condition THEN report ELSE {}

-----------------------------------------------------------------------------
(* CheckBraces: the reports on line n *)

BraceOnItsOwn(n) ==
  /\ TokensOf(n) = <<"{">>
  /\ LastToken(GetPreviousNonBlankLine(n)) \notin {";", "}", "{", "("}

ElseOnItsOwn(n) ==
  LET s == TokensOf(n)
  IN /\ s # <<>> /\ s[1] = "else"
     /\ Len(s) > 1 => s[2] \in {"if", "{"}
     /\ GetPreviousNonBlankLine(n) = <<"}">>

(* Mutant: the second line of a condition over two lines is not looked at  *)
BraceOnSameLine(n) ==
  LET s == TokensOf(n)
  IN Has(s, <<"else">>) /\ (Has(s, <<"}", "else">>) # ("{" \in ToSet(s)))

(* A brace on one side of an else only *)
BraceOnOneSide(n) ==
  LET s == TokensOf(n)
      right == "{" \in ToSet(CloseExpression(n, FirstAt(s, <<"else", "if">>) + 2).rest)
  IN IF Has(s, <<"else", "if", "(">>)
     THEN Has(s, <<"}", "else", "if", "(">>) # right
     ELSE \/ \E p \in 1..Len(s) : HasAt(s, p, <<"}", "else">>) /\ "{" \notin ToSet(Behind(s, p))
          \/ \E p \in 1..Len(s) : HasAt(s, p, <<"else", "{">>) /\ "}" \notin ToSet(SubSeq(s, 1, p))

ClauseOnLineOfElse(n) ==
  LET s == TokensOf(n)
  IN /\ \E p \in 1..(Len(s) - 1) : s[p] = "else" /\ s[p + 1] \notin {"{", ";"}
     /\ ~Has(s, <<"else", "if">>)

DoOnOneLine(n) ==
  LET s == TokensOf(n) IN Len(s) > 1 /\ s[1] = "do" /\ s[2] \notin {"{", ";"}

(* Where the condition of the first if of line n ends, or its first else *)
Clause(n) ==
  LET s == TokensOf(n)
      p == FirstAt(s, <<"else">>)
  IN IF Has(s, <<"if", "(">>) THEN CloseExpression(n, FirstAt(s, <<"if", "(">>) + 1)
     ELSE [num |-> n, pos |-> p, rest |-> Behind(s, p)]

(* It has no brace: none behind it, nor on the next line *)
Unbraced(clause) ==
  /\ clause.pos # 0
  /\ IF clause.rest = <<>> THEN ~HasAt(TokensOf(clause.num + 1), 1, <<"{">>)
     ELSE clause.rest[1] # "{"

(* The first line of its body that has a semicolon, NumLines if none has *)
EndOfBody(clause) ==
  LET ends == {m \in (clause.num + 1)..(NumLines - 1) : ";" \in ToSet(TokensOf(m))}
  IN IF ";" \in ToSet(clause.rest) THEN clause.num
     ELSE IF ends = {} THEN NumLines ELSE CHOOSE m \in ends : \A k \in ends : m <= k

(* Only closing braces are behind the first semicolon of line m *)
EndsInSemicolon(m) ==
  ToSet(Behind(TokensOf(m), FirstAt(TokensOf(m), <<";">>))) \subseteq {"}"}

(* Mutant: what is behind the body on its line is not looked at *)
DedentOnly(n, clause) ==
  LET end == EndOfBody(clause)
  IN IF ~Unbraced(clause) \/ end = NumLines \/ end = NumLines - 1 THEN {}
     ELSE When(GetIndentLevel(end + 1) > GetIndentLevel(n), Report("multiple", n))

BodyReports(n, clause) ==
  LET end == EndOfBody(clause)
  IN IF ~Unbraced(clause) \/ end = NumLines THEN {}
     ELSE IF ~EndsInSemicolon(end) THEN Report("multiple", n)
     ELSE IF end = NumLines - 1 THEN {}
     ELSE IF /\ Has(TokensOf(n), <<"if", "(">>) /\ HasAt(TokensOf(end + 1), 1, <<"else">>)
             /\ GetIndentLevel(end + 1) # GetIndentLevel(n)
     THEN Report("ambiguous", n)
     ELSE When(GetIndentLevel(end + 1) > GetIndentLevel(n), Report("multiple", n))

HasClause(n) == Has(TokensOf(n), <<"if", "(">>) \/ Has(TokensOf(n), <<"else">>)

CheckBraces ==
  /\ check = "CheckBraces"
  /\ reports' = reports
       \cup When(BraceOnItsOwn(linenum), Report("brace", linenum))
       \cup When(ElseOnItsOwn(linenum), Report("else", linenum))
       \cup When(BraceOnOneSide(linenum), Report("one side", linenum))
       \cup When(ClauseOnLineOfElse(linenum), Report("clause", linenum))
       \cup When(DoOnOneLine(linenum), Report("do", linenum))
       \cup When(HasClause(linenum), BodyReports(linenum, Clause(linenum)))
  /\ check' = "CheckTrailingSemicolon"
  /\ UNCHANGED <<source, lines, linenum>>
-----------------------------------------------------------------------------
(* CheckTrailingSemicolon *)

AfterMacro(n, p) ==
  \E place \in ReverseCloseExpression(n, p) :
    place[2] > 1 /\ TokensOf(place[1])[place[2] - 1] = "M"

(* Mutant: a brace that begins a line is not looked at *)
BraceBehindSomething(n) ==
  LET s == TokensOf(n)
  IN IF Has(s, <<")", "{">>)
     THEN IF AfterMacro(n, LastAt(s, <<")", "{">>)) THEN {} ELSE {LastAt(s, <<")", "{">>) + 1}
     ELSE IF Has(s, <<"else", "{">>) THEN {LastAt(s, <<"else", "{">>) + 1} ELSE {}

(* The place of the brace of line n whose block needs no semicolon: behind *)
(* a parenthesis that is not the one of a macro, behind else, or at the    *)
(* start of the line                                                       *)
BlockBrace(n) ==
  LET s == TokensOf(n)
  IN IF Has(s, <<")", "{">>)
     THEN IF AfterMacro(n, LastAt(s, <<")", "{">>)) THEN {} ELSE {LastAt(s, <<")", "{">>) + 1}
     ELSE IF Has(s, <<"else", "{">>) THEN {LastAt(s, <<"else", "{">>) + 1}
     ELSE IF HasAt(s, 1, <<"{">>) /\ LastToken(GetPreviousNonBlankLine(n)) \in {";", "{", "}"}
     THEN {1} ELSE {}

CheckTrailingSemicolon ==
  /\ check = "CheckTrailingSemicolon"
  /\ LET ends == {end \in {CloseExpression(linenum, p) : p \in BlockBrace(linenum)} :
                    end.pos # 0 /\ HasAt(end.rest, 1, <<";">>)}
     IN reports' = reports \cup UNION {Report("semicolon", end.num) : end \in ends}
  /\ check' = "CheckEmptyBlockBody"
  /\ UNCHANGED <<source, lines, linenum>>

-----------------------------------------------------------------------------
(* CheckEmptyBlockBody *)

(* The first line from n on that is not blank, NumLines if all are *)
NextNonBlank(n) ==
  LET found == {m \in n..(NumLines - 1) : TokensOf(m) # <<>>}
  IN IF found = {} THEN NumLines ELSE CHOOSE m \in found : \A k \in found : m <= k

(* What is next behind a place, after any blank lines: [num, pos, rest] *)
BehindBlanks(end) ==
  LET m == NextNonBlank(end.num + 1)
  IN IF end.rest # <<>> THEN end ELSE [num |-> m, pos |-> 0, rest |-> TokensOf(m)]

(* Mutant: comments are no code *)
OnlyTokensEmpty(open, close) ==
  \A m \in open.num..close.num :
    LET first == IF m = open.num THEN open.pos + 2 ELSE 1
        last == IF m = close.num THEN close.pos - 1 ELSE Len(TokensOf(m))
    IN first > last

(* From the brace behind "open" to its end "close" there is no token, and  *)
(* no comment but one on the line of the end                               *)
EmptyBody(open, close) ==
  /\ ~Line(open.num).comment
  /\ \A m \in (open.num + 1)..(close.num - 1) : ~Line(m).comment
  /\ OnlyTokensEmpty(open, close)

IfHasNothing(end) ==
  LET open == BehindBlanks(end)
      close == CloseExpression(open.num, open.pos + 1)
  IN /\ HasAt(open.rest, 1, <<"{">>)
     /\ close.pos # 0
     /\ EmptyBody(open, close)
     /\ ~HasAt(BehindBlanks(close).rest, 1, <<"else">>)

BodyIsSemicolon(end) == end.pos # 0 /\ HasAt(end.rest, 1, <<";">>)

CheckEmptyBlockBody ==
  /\ check = "CheckEmptyBlockBody"
  /\ LET s == TokensOf(linenum)
         end == CloseExpression(linenum, 2)
         Checked == \E word \in {"for", "while", "if"} : HasAt(s, 1, <<word, "(">>)
     IN reports' = reports
          \cup When(Checked /\ BodyIsSemicolon(end),
                    Report(IF s[1] = "if" THEN "empty conditional" ELSE "empty loop", end.num))
          \cup When(Checked /\ s[1] = "if" /\ end.pos # 0 /\ IfHasNothing(end),
                    Report("empty if", end.num))
  /\ check' = "NextLine"
  /\ UNCHANGED <<source, lines, linenum>>

-----------------------------------------------------------------------------
(* The file that is linted *)

Write ==
  /\ check = "write"
  /\ Len(lines) < MaxLines
  /\ \E line \in Texts[source] : lines' = Append(lines, line)
  /\ UNCHANGED <<check, source, linenum, reports>>

(* The checks of the next line *)
ProcessLine ==
  /\ check \in {"write", "NextLine"}
  /\ LET n == IF check = "write" THEN 1 ELSE linenum + 1
     IN IF n <= Len(lines)
        THEN check' = "CheckBraces" /\ linenum' = n
        ELSE check' = "done" /\ UNCHANGED linenum
  /\ UNCHANGED <<source, lines, reports>>

Next == Write \/ ProcessLine \/ CheckBraces \/ CheckTrailingSemicolon \/ CheckEmptyBlockBody

Spec == Init /\ [][Next]_vars
-----------------------------------------------------------------------------
(* Properties *)

Reported(name, n) == \E r \in reports : r.check = name /\ r.line = n

(* What the text of a file that is done says *)
Judged == IF check = "done" THEN {[s |-> Tokens(lines), nodes |-> Parse(lines)]} ELSE {}
LineOf(text, i) == text.s[i].line
Node(text, i) == CHOOSE node \in text.nodes : node.at = i

(* The body of an if is a block with nothing in it, not even a comment,    *)
(* and there is no else                                                    *)
NothingInside(text, node) ==
  \A body \in {Node(text, node.body)} :
    /\ body.kind = "block" /\ body.next = body.at + 2
    /\ node.else = 0
    /\ \A m \in LineOf(text, body.at)..LineOf(text, body.next - 1) :
         m = LineOf(text, body.at) \/ m < LineOf(text, body.next - 1) => ~lines[m].comment

(* A loop or an if that begins a line is reported exactly if its body is   *)
(* the semicolon behind its condition, on the same line, and an if also    *)
(* exactly if it has no else and its body is a block with nothing in it,   *)
(* not even a comment (CheckEmptyBlockBody).                               *)
EmptyBodiesReported ==
  \A text \in Judged : \A node \in text.nodes :
    node.kind \in {"if", "loop"} /\ text.s[node.at].first =>
    LET name == IF node.kind = "if" THEN "empty conditional" ELSE "empty loop"
        last == LineOf(text, node.condition - 1)
    IN /\ Reported(name, last) <=>
            Tok(text.s, node.condition) = ";" /\ LineOf(text, node.condition) = last
       /\ node.kind = "if" => (Reported("empty if", last) <=> NothingInside(text, node))

OneBrace == \A n \in 1..Len(lines) : Cardinality({p \in 1..Len(TokensOf(n)) : TokensOf(n)[p] = "{"}) <= 1
NoBraceOnItsOwn == \A r \in reports : r.check # "brace"

(* In a file that has its braces in place, a semicolon behind a block is   *)
(* reported exactly if it is an empty statement, on its line: not if it    *)
(* belongs to a macro (CheckTrailingSemicolon).                            *)
RedundantReported ==
  \A text \in Judged : text.nodes # {} /\ OneBrace /\ NoBraceOnItsOwn =>
    \A n \in 1..Len(lines) :
      Reported("semicolon", n) <=>
        \E node \in text.nodes :
          /\ Tok(text.s, node.at) = ";" /\ Tok(text.s, node.at - 1) = "}"
          /\ LineOf(text, node.at) = n /\ LineOf(text, node.at - 1) = n

(* The bodies of an if, and the keyword in front of each *)
Bodies(node) == {node.body} \cup (IF node.else = 0 THEN {} ELSE {node.else + 1})
Keyword(node, i) == IF i = node.body THEN node.at ELSE node.else
FirstOfLine(text, k) ==
  \A j \in 1..(k - 1) : LineOf(text, j) = LineOf(text, k) => Tok(text.s, j) \notin {"if", "else"}

(* The statement at "next" looks as if it were controlled by token k *)
LooksControlled(text, k, next) ==
  /\ Tok(text.s, next) \notin {"else", "}", "eof"}
  /\ \/ LineOf(text, next) = LineOf(text, next - 1)
     \/ /\ LineOf(text, next) = LineOf(text, next - 1) + 1
        /\ lines[LineOf(text, next)].indent > lines[LineOf(text, k)].indent

(* An if or else without a brace, the first of its line, that controls one *)
(* statement: if the statement behind that one is on the same line, or on  *)
(* the next one and indented deeper than the if or else, the line is       *)
(* reported: nothing looks controlled that is not (CheckBraces).           *)
NothingLooksControlled ==
  \A text \in Judged : \A node \in text.nodes : node.kind = "if" => \A i \in Bodies(node) :
    \A k \in {Keyword(node, i)}, body \in {Node(text, i)} :
      /\ body.kind = "simple"
      /\ FirstOfLine(text, k) /\ (i # node.body => Tok(text.s, k + 1) # "if")
      /\ LooksControlled(text, k, body.next)
      => Reported("multiple", LineOf(text, k))

(* The braces at k - 1 and at "right" are on the line of the else at k and *)
(* on the one that ends the condition behind it, if they are there, and    *)
(* these lines have no other braces and no other else                      *)
Alone(text, k, right) ==
  /\ Tok(text.s, k - 1) = "}" => LineOf(text, k - 1) = LineOf(text, k)
  /\ Tok(text.s, right) = "{" => LineOf(text, right) = LineOf(text, right - 1)
  /\ \A j \in 1..Len(text.s) :
       /\ Tok(text.s, j) = "else" /\ LineOf(text, j) = LineOf(text, k) => j = k
       /\ LineOf(text, j) \in {LineOf(text, k), LineOf(text, right - 1)} /\ Tok(text.s, j) \in {"{", "}"}
            => j \in {k - 1, right}

(* A brace on one side of an else is reported exactly if it is: for every  *)
(* else that is alone on its line, with the braces of its sides on that    *)
(* line or on the one that ends its condition (CheckBraces).               *)
OneSideReported ==
  \A text \in Judged : \A node \in text.nodes : node.else # 0 =>
    \A k \in {node.else}, other \in {Node(text, node.else + 1)} :
      \A right \in {IF other.kind = "if" /\ LineOf(text, k + 1) = LineOf(text, k)
                   THEN other.condition ELSE k + 1} :
        Alone(text, k, right) =>
          (Reported("one side", LineOf(text, k)) <=> (Tok(text.s, k - 1) = "}") # (Tok(text.s, right) = "{"))
===============================================================================
