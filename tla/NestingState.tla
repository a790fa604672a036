----------------------------- MODULE NestingState -----------------------------
(***************************************************************************)
(* NestingState: what the linter believes about the braces of a file.      *)
(* Update reads the file line by line and keeps a stack of the blocks that *)
(* are open, with checkpoints of that stack for #if, #else and #endif, so  *)
(* that only one branch of a conditional counts.  The checks of a line ask *)
(* it for the innermost class, the scope of the line and whether the line  *)
(* is inline assembly.                                                     *)
(*                                                                         *)
(* A line is what the regular expressions of Update see of its text:       *)
(*   pp      "if", "else" (also #elif), "endif" or "none"                  *)
(*   parens  opening minus closing parentheses                             *)
(*   asm     it starts with asm and a parenthesis                          *)
(*   ns      its leading namespace declarations: TRUE if a brace follows   *)
(*   cls     "class" or "struct" if a declaration of one is next           *)
(*   targ    InTemplateArgumentList says yes about it                      *)
(*   access  the access label it has, or "none"                            *)
(*   tokens  its remaining braces, semicolons and closing parentheses,     *)
(*           with extern "C" or asm if what is left starts with that; one  *)
(*           that begins with a brace begins the line                      *)
(*   indent  the number of blanks in front of it                           *)
(*   forward it ends in the forward declaration of a class                 *)
(*   macro   "define" for the first line of a macro that goes on, or "no"  *)
(*   name    the class or namespace it begins, "anonymous" without a name  *)
(*   code    it is "blank", a "comment" or "code"                          *)
(*   closes  the namespace a comment behind its brace names, or "none"     *)
(*   disallow the class it has a DISALLOW macro for, or "none"             *)
(*   times   the number of equal lines it stands for                       *)
(*   part    what its indentation makes of it: "parameters" (the last of a *)
(*           head), "initializers" (the first), "initializer", or "none"   *)
(***************************************************************************)
EXTENDS Integers, SequencesExt

CONSTANTS
  Source,    \* the lines a file is made of: from their text to what is seen of it
  MaxLines   \* bound on the length of a file

VARIABLES
  text,          \* history: the lines so far, the last index is linenum
  stack,         \* the blocks that are open
  pp_stack,      \* _PreprocessorInfo of the conditionals that are open
  completed,     \* whether CheckCompletedBlocks was called
  reports,       \* the lines it reports on
  previous_stack_top, \* the innermost block before the last line
  layout         \* errors about the layout of scopes: [check, line]

vars == <<text, stack, pp_stack, completed, reports, previous_stack_top, layout>>

Kinds == {"class", "struct", "namespace", "extern", "block"}
NoBlock == [kind |-> "none"]

-----------------------------------------------------------------------------
(* Blocks *)

BlockInfo(kind, seen_open_brace, linenum) ==
  [kind |-> kind, seen_open_brace |-> seen_open_brace, starting_linenum |-> linenum,
   open_parentheses |-> 0, inline_asm |-> "no", class_indent |-> 0,
   access |-> CASE kind = "class"  -> "private"
                [] kind = "struct" -> "public"
                [] OTHER           -> "none"]

IsClass(block) == block.kind \in {"class", "struct"}
Top(s) == IF s = <<>> THEN NoBlock ELSE Last(s)
ChangeTop(s, block) == IF s = <<>> THEN s ELSE Append(Front(s), block)
SeenOpenBrace(s) == s = <<>> \/ Last(s).seen_open_brace
InAsmBlock == stack # <<>> /\ Last(stack).inline_asm # "no"
InClassDeclaration == stack # <<>> /\ IsClass(Last(stack))

-----------------------------------------------------------------------------
(* #if, #else and #endif: "s" has the two stacks.  Copies are values here. *)

PreprocessorInfo(s) ==
  [stack_before_if |-> s, stack_before_else |-> <<>>, seen_else |-> FALSE]

BeginIf(s) == [s EXCEPT !.pp_stack = Append(@, PreprocessorInfo(s.stack))]

(* Mutant: every #else, not only the first, is the end of what counts *)
KeepAtEveryElse(s) ==
  IF s.pp_stack = <<>> THEN s
  ELSE [stack    |-> Last(s.pp_stack).stack_before_if,
        pp_stack |-> Append(Front(s.pp_stack),
                            [Last(s.pp_stack) EXCEPT !.seen_else = TRUE, !.stack_before_else = s.stack])]

BeginElse(s) ==
  LET info == Last(s.pp_stack)
      seen == IF info.seen_else THEN info
              ELSE [stack_before_if |-> info.stack_before_if, stack_before_else |-> s.stack, seen_else |-> TRUE]
  IN IF s.pp_stack = <<>> THEN s
     ELSE [stack |-> info.stack_before_if, pp_stack |-> Append(Front(s.pp_stack), seen)]

(* Mutant: the last branch is kept *)
KeepLastBranch(s) ==
  IF s.pp_stack = <<>> THEN s ELSE [s EXCEPT !.pp_stack = Front(@)]

EndIf(s) ==
  LET info == Last(s.pp_stack)
  IN IF s.pp_stack = <<>> THEN s
     ELSE [stack    |-> IF info.seen_else THEN info.stack_before_else ELSE s.stack,
           pp_stack |-> Front(s.pp_stack)]

UpdatePreprocessor(s, line) ==
  CASE line.pp = "if"    -> BeginIf(s)
    [] line.pp = "else"  -> BeginElse(s)
    [] line.pp = "endif" -> EndIf(s)
    [] OTHER             -> s

-----------------------------------------------------------------------------
(* The steps of Update over a line, in their order.  Each takes the stack  *)
(* and gives the stack.                                                    *)

AsmState(inline_asm, line, depth) ==
  CASE inline_asm \in {"no", "end"} ->
         IF line.parens # 0 /\ depth = 1 /\ line.asm THEN "inside" ELSE "no"
    [] inline_asm = "inside" /\ depth = 0 -> "end"
    [] OTHER -> inline_asm

CountParentheses(s, line) ==
  LET counted == [Last(s) EXCEPT !.open_parentheses = @ + line.parens]
  IN IF s = <<>> THEN s
     ELSE ChangeTop(s, [counted EXCEPT !.inline_asm = AsmState(@, line, counted.open_parentheses)])

Namespaces(s, line, linenum) ==
  s \o [i \in 1..Len(line.ns) |-> BlockInfo("namespace", line.ns[i], linenum)]

ClassDeclaration(s, line, linenum) ==
  IF line.cls # "none" /\ (s = <<>> \/ Last(s).open_parentheses = 0) /\ ~line.targ
  THEN Append(s, [BlockInfo(line.cls, FALSE, linenum) EXCEPT !.class_indent = line.indent])
  ELSE s

AccessLabel(s, line) ==
  IF line.access # "none" /\ s # <<>> /\ IsClass(Last(s))
  THEN ChangeTop(s, [Last(s) EXCEPT !.access = line.access])
  ELSE s

OpenBrace(s, token, linenum) ==
  IF ~SeenOpenBrace(s)
  THEN ChangeTop(s, [Last(s) EXCEPT !.seen_open_brace = TRUE])
  ELSE Append(s, [BlockInfo(IF token = "extern {" THEN "extern" ELSE "block", TRUE, linenum)
                    EXCEPT !.inline_asm = IF token = "asm {" THEN "block" ELSE "no"])

DropHead(s) == IF SeenOpenBrace(s) THEN s ELSE Front(s)

CloseBrace(s) == IF s = <<>> THEN s ELSE Front(s)

Token(s, token, linenum) ==
  IF token \in {"{", "extern {", "asm {"} THEN OpenBrace(s, token, linenum)
  ELSE IF token = "}" THEN CloseBrace(s)
  ELSE DropHead(s)  \* ";" or ")"

(* The stacks behind the first tokens of a line *)
Reading(s, line, linenum) ==
  LET after[k \in 0..Len(line.tokens)] ==
        IF k = 0 THEN s ELSE Token(after[k - 1], line.tokens[k], linenum)
  IN after

(* The stack behind all of them, and the blocks whose CheckEnd was called *)
Tokens(s, line, linenum) ==
  LET after == Reading(s, line, linenum)
      ends == {k \in 1..Len(line.tokens) : line.tokens[k] = "}" /\ after[k - 1] # <<>>}
  IN [stack |-> after[Len(line.tokens)], ended |-> {Last(after[k - 1]) : k \in ends}]

Declarations(s, line, linenum) ==
  AccessLabel(ClassDeclaration(Namespaces(s, line, linenum), line, linenum), line)

-----------------------------------------------------------------------------
(* CheckEnd of a class and of a namespace.  "lines" are those of the text. *)

(* From the one line to the other *)
Distance(lines, first, last) ==
  MapThenSumSet(LAMBDA i : Source[lines[i]].times, first..(last - 1))

(* The last DISALLOW macro of the class, if it is not the last thing in it *)
Disallowed(lines, block) ==
  LET macros == {i \in (block.starting_linenum + 1)..(Len(lines) - 1) :
                   Source[lines[i]].disallow = Source[lines[block.starting_linenum]].name}
  IN {i \in macros : /\ \A j \in macros : j <= i
                     /\ \E j \in (i + 1)..(Len(lines) - 1) : Source[lines[j]].code = "code"}

Unnamed(lines, block) ==
  LET closes == Source[Last(lines)].closes
  IN /\ Distance(lines, block.starting_linenum, Len(lines)) >= 10 \/ closes # "none"
     /\ closes # Source[lines[block.starting_linenum]].name

Misaligned(ended, line) ==
  /\ line.tokens # <<>> /\ Head(line.tokens) = "}"
  /\ \E block \in ended : IsClass(block) /\ block.class_indent # line.indent

-----------------------------------------------------------------------------
(* CheckForNamespaceIndentation *)

ChecksIndentation(block) == IsClass(block) \/ block.kind = "namespace"
OnNamespace(s) == Len(s) > 1 /\ ChecksIndentation(Last(s)) /\ s[Len(s) - 1].kind = "namespace"

(* #else, and #endif behind one, replace the blocks by copies *)
Copied(line) ==
  pp_stack # <<>> /\ (line.pp = "else" \/ (line.pp = "endif" /\ Last(pp_stack).seen_else))

(* Mutant: a block and its copy are the same *)
EqualTop(s, line) == Len(s) > 1 /\ Top(stack) = s[Len(s) - 1]

(* The top of the one stack is that below the top of the other, and it is  *)
(* no copy of it: previous_stack_top is the very block                     *)
IsBelow(old, s) ==
  /\ Len(s) > 1 /\ Len(old) = Len(s) - 1
  /\ Last(old).starting_linenum = s[Len(s) - 1].starting_linenum
PreviousTopIsBelow(s, line) == IsBelow(stack, s) /\ ~Copied(line)

IsMacroDefinition(line) ==
  line.macro = "define" \/ (text # <<>> /\ Source[Last(text)].macro = "define")

ShouldCheckNamespaceIndentation(s, line) ==
  LET item == OnNamespace(s) /\ PreviousTopIsBelow(s, line)
  IN /\ item \/ line.forward
     /\ ~IsMacroDefinition(line)
     /\ IF line.forward THEN Top(s).kind = "namespace" ELSE OnNamespace(s)

Errors(check, lines) == {[check |-> check, line |-> n] : n \in lines}
Layout(t, lines) ==
  LET line == Source[Last(lines)]
      Here(told) == IF told THEN {Len(lines)} ELSE {}
  IN Errors("class end", Here(Misaligned(t.ended, line)))
       \cup Errors("namespace end", Here(\E b \in t.ended : b.kind = "namespace" /\ Unnamed(lines, b)))
       \cup Errors("disallow", UNION {Disallowed(lines, b) : b \in {x \in t.ended : IsClass(x)}})
       \cup Errors("namespace item",
                   Here(ShouldCheckNamespaceIndentation(t.stack, line) /\ line.indent > 0))

-----------------------------------------------------------------------------
(* The calls of ProcessFileData *)

Init ==
  /\ text = <<>>
  /\ stack = <<>>
  /\ pp_stack = <<>>
  /\ completed = FALSE
  /\ reports = {}
  /\ previous_stack_top = NoBlock
  /\ layout = {}

(* Update behind UpdatePreprocessor *)
ReadLine(s, line, linenum) ==
  Tokens(Declarations(CountParentheses(s, line), line, linenum), line, linenum)

(* The stacks after a line, and the blocks that end on it *)
Updated(s, line, linenum) ==
  LET before == UpdatePreprocessor(s, line)
      after == ReadLine(before.stack, line, linenum)
  IN [stack |-> after.stack, pp_stack |-> before.pp_stack, ended |-> after.ended]

(* \E x \in {e} is LET x == e, evaluated once *)
Update(source) ==
  LET line == Source[source]
  IN /\ ~completed
     /\ Len(text) < MaxLines
     /\ text' = Append(text, source)
     /\ previous_stack_top' = Top(stack)
     /\ \E t \in {Updated([stack |-> stack, pp_stack |-> pp_stack], line, Len(text) + 1)} :
          /\ pp_stack' = t.pp_stack
          /\ stack' = t.stack
          /\ layout' = layout \cup Layout(t, Append(text, source))
     /\ UNCHANGED <<completed, reports>>

Unfinished(s) == {b \in ToSet(s) : IsClass(b) \/ b.kind = "namespace"}

CheckCompletedBlocks ==
  /\ ~completed
  /\ completed' = TRUE
  /\ reports' = {b.starting_linenum : b \in Unfinished(stack)}
  /\ UNCHANGED <<text, stack, pp_stack, previous_stack_top, layout>>

Next == (\E line \in DOMAIN Source : Update(line)) \/ CheckCompletedBlocks

Spec == Init /\ [][Next]_vars

-----------------------------------------------------------------------------
(* Properties: the assumptions of UpdatePreprocessor, from the text alone  *)

(* The lines with an #if, and how many more of them there are from line i  *)
(* to line j than lines with an #endif                                     *)
Conditionals(t) == {i \in 1..Len(t) : Source[t[i]].pp = "if"}
Balance(t, i, j) ==
  Cardinality({k \in i..j : Source[t[k]].pp = "if"}) - Cardinality({k \in i..j : Source[t[k]].pp = "endif"})

(* The #if of line i has no #endif up to line j, and the lines with an     *)
(* #else of its own                                                        *)
IsOpen(t, i, j) == \A k \in i..j : Source[t[k]].pp = "endif" => Balance(t, i, k) > 0
Elses(t, i) ==
  {j \in i..Len(t) : Source[t[j]].pp = "else" /\ Balance(t, i, j) = 1 /\ IsOpen(t, i, j)}

(* The lines that do not count: those behind the first branch of a         *)
(* conditional that is over, and those in front of the last branch so far  *)
(* of one that is not.                                                     *)
BranchesOf(t, i) ==
  UNION {IF IsOpen(t, i, Len(t)) THEN i..(j - 1) ELSE {n \in j..Len(t) : IsOpen(t, i, n)} : j \in Elses(t, i)}
OtherBranches(t) == UNION {BranchesOf(t, i) : i \in Conditionals(t)}

(* The stack behind the lines of a text that count *)
StackOf(t) ==
  LET others == OtherBranches(t)
      read[n \in 0..Len(t)] ==
        IF n = 0 THEN <<>>
        ELSE IF n \in others THEN read[n - 1] ELSE ReadLine(read[n - 1], Source[t[n]], n).stack
  IN read[Len(t)]

(* However conditionals are inside and behind each other, complete or not, *)
(* the checkpoints of #if, #else and #endif make the stack the one of the  *)
(* lines that count: nothing of another branch survives, and nothing of    *)
(* the first is lost.  The end of the file reports the classes and         *)
(* namespaces these lines leave open, and nothing else                     *)
(* (UpdatePreprocessor, CheckCompletedBlocks).                             *)
OneBranchCounts ==
  \E s \in {StackOf(text)} :
    /\ stack = s
    /\ completed => reports = {b.starting_linenum : b \in Unfinished(s)}
===============================================================================
