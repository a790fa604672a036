---------------------------- MODULE CloseExpression ----------------------------
(***************************************************************************)
(* CloseExpression and ReverseCloseExpression: from an opening bracket     *)
(* forward to the closing one, and from there back.  Whether "<" and ">"   *)
(* are brackets or operators is guessed from the characters around them.   *)
(*                                                                         *)
(* The text is read character by character, one step for one iteration of  *)
(* FindEndOfExpressionInLine, then back, one step for one iteration of     *)
(* FindStartOfExpressionInLine.  The word "operator", a word "a" and the   *)
(* end of a line count as characters.                                      *)
(***************************************************************************)
EXTENDS Integers, Sequences

CONSTANTS
  Before,   \* what may stand on the line in front of the first bracket
  MaxLength \* bound on the length of the text

Brackets == {"(", "[", "{"}
Closers == {")", "]", "}"}
Mate(c) == CASE c = ")" -> "(" [] c = "]" -> "[" [] OTHER -> "{"
Plain == {"-", "=", "blank", "operator", "a"}
Chars == Brackets \cup Closers \cup Plain \cup {"<", ">", ";", "newline"}

ASSUME BeforeAssumption == Before \subseteq Seq({"operator", "blank", "<", "a"})
ASSUME MaxLengthAssumption == MaxLength \in Nat

VARIABLES
  text,    \* history: what was read
  start,   \* history: the place of the first bracket in it
  stack,   \* stack
  outcome, \* "scan", "found", "failed" inside a line, "gave up" after one
  at,      \* i of the way back
  pending, \* stack of the way back
  origin,  \* outcome of the way back, "none" before it
  open,    \* history: the brackets that are open, without < and >
  broken,  \* history: whether a closing bracket did not fit
  nest,    \* history: what is open if every < and > is a bracket
  tidy     \* history: whether every < and > can be one

forward == <<text, start, stack, outcome>>
backward == <<at, pending, origin>>
history == <<open, broken, nest, tidy>>
vars == <<forward, backward, history>>

Inside == INSTANCE TextInside

Top(s) == s[Len(s)]
Pop(s) == SubSeq(s, 1, Len(s) - 1)
Ends(s, c) == s # <<>> /\ Top(s) = c

(* Mutant: only one pending angle *)
DropOne(s, angle) == IF Ends(s, angle) THEN Pop(s) ELSE s

(* The stack without the pending angles on top of it *)
DropAngles(s, angle) ==
  LET kept == CHOOSE k \in 0..Len(s) :
                /\ k > 0 => s[k] # angle
                /\ \A j \in (k + 1)..Len(s) : s[j] = angle
  IN SubSeq(s, 1, kept)

AtLineStart(s) == s = <<>> \/ Top(s) = "newline"

(* s ends in operator\s* *)
AfterOperator(s) ==
  \E k \in 1..Len(s) : s[k] = "operator" /\ \A j \in (k + 1)..Len(s) : s[j] = "blank"

Init ==
  /\ text \in Before
  /\ start = Len(text) + 1
  /\ stack = <<>>
  /\ outcome = "scan"
  /\ at = 0
  /\ pending = <<>>
  /\ origin = "none"
  /\ open = <<>>
  /\ broken = FALSE
  /\ nest = <<>>
  /\ tidy = (text \in {<<>>, <<"a">>})

-----------------------------------------------------------------------------
(* What the text is, told without guessing *)

Follow(c) ==
  /\ open' = CASE c \in Brackets -> Append(open, c)
               [] c \in Closers /\ Ends(open, Mate(c)) -> Pop(open)
               [] OTHER -> open
  /\ broken' = (broken \/ (c \in Closers /\ ~Ends(open, Mate(c))))
  /\ nest' = CASE c \in Brackets \cup {"<"} -> Append(nest, c)
               [] c \in Closers /\ Ends(nest, Mate(c)) -> Pop(nest)
               [] c = ">" /\ Ends(nest, "<") -> Pop(nest)
               [] OTHER -> nest
  /\ tidy' = /\ tidy
             /\ c \in Closers => Ends(nest, Mate(c))
             /\ c = ">" => Ends(nest, "<") /\ ~Ends(text, "-")
             /\ c = "<" => ~Ends(text, "<")
             /\ c = "=" => ~Ends(text, ">") /\ ~Ends(text, "<")
             /\ c = ";" => ~Ends(nest, "<")
             /\ c # "operator"

-----------------------------------------------------------------------------
(* FindEndOfExpressionInLine, and CloseExpression around it *)

Read(c) ==
  /\ outcome = "scan"
  /\ Len(text) < MaxLength
  /\ Len(text) < start => c \in Brackets \cup {"<"}
  /\ text' = Append(text, c)
  /\ Follow(c)
  /\ UNCHANGED <<start, backward>>

Return(rest) ==
  /\ stack' = rest
  /\ outcome' = IF rest = <<>> THEN "found" ELSE "scan"

(* << and <= are looked for where the expression starts *)
Refused(c) == Len(text) = start /\ text[start] = "<" /\ c \in {"<", "="}

Refuse(c) ==
  /\ Refused(c)
  /\ Read(c)
  /\ outcome' = "gave up"
  /\ UNCHANGED stack

OpenBracket(c) ==
  /\ c \in Brackets
  /\ Read(c)
  /\ stack' = Append(stack, c)
  /\ UNCHANGED outcome

LeftShift ==
  /\ Ends(text, "<")
  /\ ~Refused("<")
  /\ Read("<")
  /\ stack' = DropOne(stack, "<")
  /\ outcome' = IF stack = <<"<">> THEN "failed" ELSE "scan"

Less ==
  /\ ~Ends(text, "<")
  /\ Read("<")
  /\ stack' = IF AfterOperator(text) THEN stack ELSE Append(stack, "<")
  /\ UNCHANGED outcome

CloseBracket(c) ==
  LET rest == DropAngles(stack, "<")
  IN /\ c \in Closers
     /\ Read(c)
     /\ IF Ends(rest, Mate(c))
        THEN Return(Pop(rest))
        ELSE /\ stack' = rest
             /\ outcome' = "failed"

(* -> and operators; the character before ">" is not looked at for these *)
NotAngle == Ends(text, "-") \/ (~AtLineStart(text) /\ AfterOperator(Pop(text)))

Greater ==
  /\ Read(">")
  /\ IF Ends(stack, "<") /\ ~NotAngle
     THEN Return(Pop(stack))
     ELSE UNCHANGED <<stack, outcome>>

(* Mutant: a semicolon ends every search *)
SemicolonEnds ==
  /\ Read(";")
  /\ stack' = <<>>
  /\ outcome' = "failed"

Semicolon ==
  LET rest == DropAngles(stack, "<")
  IN /\ Read(";")
     /\ stack' = rest
     /\ outcome' = IF rest = <<>> THEN "failed" ELSE "scan"

Other(c) ==
  /\ c \in Plain
  /\ ~Refused(c)
  /\ Read(c)
  /\ UNCHANGED <<stack, outcome>>

EndOfLine ==
  /\ Read("newline")
  /\ outcome' = IF stack = <<>> THEN "gave up" ELSE "scan"
  /\ UNCHANGED stack

EndOfFile ==
  /\ outcome = "scan"
  /\ Len(text) >= start
  /\ outcome' = "gave up"
  /\ UNCHANGED <<text, start, stack, backward, history>>

Forward ==
  \/ \E c \in Chars : Refuse(c) \/ OpenBracket(c) \/ CloseBracket(c) \/ Other(c)
  \/ LeftShift \/ Less \/ Greater \/ Semicolon \/ EndOfLine \/ EndOfFile

-----------------------------------------------------------------------------
(* FindStartOfExpressionInLine, and ReverseCloseExpression around it *)

TurnBack ==
  /\ outcome = "found" /\ origin = "none"
  /\ origin' = "scan"
  /\ at' = Len(text)
  /\ pending' = <<>>
  /\ UNCHANGED <<forward, history>>

Back(c, step) ==
  /\ origin = "scan" /\ at > 0
  /\ c = text[at]
  /\ at' = at - step
  /\ UNCHANGED <<forward, history>>

Line(i) == SubSeq(text, 1, i) \* up to i, with the lines before it

ReturnStart(rest) ==
  /\ pending' = rest
  /\ origin' = IF rest = <<>> THEN "found" ELSE "scan"

BackCloser(c) ==
  /\ c \in Closers
  /\ Back(c, 1)
  /\ pending' = Append(pending, c)
  /\ UNCHANGED origin

(* Mutant: >> is taken for a shift *)
SkipShift == Ends(Line(at - 1), "-") \/ Ends(Line(at - 1), ">")

(* -> and >= and operators *)
SkipGreater ==
  LET before == Line(at - 1)
  IN /\ ~AtLineStart(before)
     /\ \/ Ends(before, "-")
        \/ /\ Ends(before, "blank") /\ at + 2 <= Len(text)
           /\ text[at + 1] = "=" /\ text[at + 2] = "blank"
        \/ AfterOperator(before)

BackGreater ==
  IF SkipGreater
  THEN Back(">", 2) /\ UNCHANGED <<pending, origin>>
  ELSE Back(">", 1) /\ pending' = Append(pending, ">") /\ UNCHANGED origin

BackLess ==
  IF Ends(Line(at - 1), "<")
  THEN Back("<", 2) /\ UNCHANGED <<pending, origin>>
  ELSE /\ Back("<", 1)
       /\ IF Ends(pending, ">")
          THEN ReturnStart(Pop(pending))
          ELSE UNCHANGED <<pending, origin>>

BackBracket(c) ==
  LET rest == DropAngles(pending, ">")
  IN /\ c \in Brackets
     /\ Back(c, 1)
     /\ IF rest # <<>> /\ Mate(Top(rest)) = c
        THEN ReturnStart(Pop(rest))
        ELSE /\ pending' = rest
             /\ origin' = "failed"

BackSemicolon ==
  LET rest == DropAngles(pending, ">")
  IN /\ Back(";", 1)
     /\ pending' = rest
     /\ origin' = IF rest = <<>> THEN "failed" ELSE "scan"

BackOther(c) ==
  /\ c \in Plain
  /\ Back(c, 1)
  /\ UNCHANGED <<pending, origin>>

BackLine ==
  /\ Back("newline", 1)
  /\ origin' = IF pending = <<>> THEN "gave up" ELSE "scan"
  /\ UNCHANGED pending

StartOfFile ==
  /\ origin = "scan" /\ at = 0
  /\ origin' = "gave up"
  /\ UNCHANGED <<forward, at, pending, history>>

Backward ==
  \/ TurnBack \/ BackGreater \/ BackLess \/ BackSemicolon \/ BackLine \/ StartOfFile
  \/ \E c \in Chars : BackCloser(c) \/ BackBracket(c) \/ BackOther(c)

Next == Forward \/ Backward

Spec == Init /\ [][Next]_vars

-----------------------------------------------------------------------------
(* Properties *)

(* Types: both stacks hold what the code compares them with, and both ways *)
(* stay in the text.                                                       *)
TypeOK ==
  /\ text \in Seq(Chars)
  /\ start \in 1..(Len(text) + 1)
  /\ stack \in Seq(Brackets \cup {"<"})
  /\ outcome \in {"scan", "found", "failed", "gave up"}
  /\ at \in 0..Len(text)
  /\ pending \in Seq(Closers \cup {">"})
  /\ origin \in {"none", "scan", "found", "failed", "gave up"}
  /\ open \in Seq(Brackets) /\ nest \in Seq(Brackets \cup {"<"})
  /\ broken \in BOOLEAN /\ tidy \in BOOLEAN

Started == Len(text) >= start
FromBracket == Started /\ text[start] \in Brackets
FromAngle == Started /\ text[start] = "<"

(* From a round, square or curly bracket, whatever is taken for an angle   *)
(* bracket on the way: the end is found where the brackets of the text     *)
(* that are not angles close, and only there, and the search fails where   *)
(* one does not fit (CloseExpression).                                     *)
BracketFindsItsMate ==
  FromBracket => CASE outcome = "found"  -> open = <<>> /\ ~broken
                   [] outcome = "failed" -> broken
                   [] OTHER              -> open # <<>> /\ ~broken

(* From an angle bracket in a text whose angles can all be brackets, such  *)
(* as template arguments: the end is found where it closes among all the   *)
(* brackets, and only there.                                               *)
AngleFindsItsMate ==
  FromAngle /\ tidy => (outcome = "found" <=> nest = <<>>) /\ outcome # "failed"

(* The way back from the end that was found leads to the bracket the       *)
(* search started from, always for the brackets that are not angles and    *)
(* in tidy texts for angles (ReverseCloseExpression).                      *)
BackToTheStart ==
  (FromBracket \/ (FromAngle /\ tidy)) /\ origin \notin {"none", "scan"} =>
    origin = "found" /\ at + 1 = start

(* What _GetTextInside takes from a text without knowing of angles is what *)
(* CloseExpression finds with its guesses about them: from a round, square *)
(* or curly bracket both find an end or none, and the same one.            *)
TextsInsideAgree ==
  FromBracket /\ origin = "none" =>
    Inside!ClosingPosition(text, start) = IF outcome = "found" THEN Len(text) ELSE 0
===============================================================================
