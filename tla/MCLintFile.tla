------------------------------ MODULE MCLintFile ------------------------------
(***************************************************************************)
(* Instances of LintFile: files of three lines of a few kinds, each kind   *)
(* one thing the order of the checks can get wrong.                        *)
(***************************************************************************)
EXTENDS LintFile

CONSTANTS all, nothing

MCCategories ==
  {"whitespace/tab", "readability/casting", "readability/braces", "readability/nolint",
   "readability/utf8", "readability/nul", "readability/multiline_comment",
   "whitespace/empty_loop_body", "whitespace/ending_newline", "legal/copyright",
   "build/class", "build/c++11", "build/header_guard"}

Comment(category) == [category |-> category, next |-> FALSE]
NextLine(category) == [category |-> category, next |-> TRUE]
Find(category, distance) == [category |-> category, distance |-> distance, ahead |-> FALSE]
FindBrace(distance) == [category |-> "readability/braces", distance |-> distance, ahead |-> TRUE]

Tab == [Marker EXCEPT !.checks = <<Find("whitespace/tab", 0)>>]
HiddenTab == [Tab EXCEPT !.nolint = Comment("whitespace/tab")]
HideNext == [Marker EXCEPT !.nolint = NextLine(all), !.cxx11 = TRUE]
EmptyLoop == [Marker EXCEPT !.checks = <<Find("whitespace/empty_loop_body", 1)>>]
Semicolon == [Marker EXCEPT !.nolint = Comment("readability/braces"),
                            !.checks = <<FindBrace(1)>>]
Unknown == [Tab EXCEPT !.nolint = Comment("unknown"), !.directives = {"c"}]
Kernel == [Tab EXCEPT !.directives = {"kernel"}, !.nolint = Comment("legacy"),
                      !.bad = {"utf8", "nul"}]
Asm == [Marker EXCEPT !.asm = TRUE, !.nolint = Comment(all),
                      !.early = <<Find("readability/casting", 0), Find("build/class", -1)>>,
                      !.checks = <<Find("whitespace/tab", 0)>>]
GuardLine == [Marker EXCEPT !.nolint = Comment("build/header_guard")]

Kinds == {Tab, HiddenTab, HideNext, EmptyLoop, Semicolon, Unknown, Kernel, Asm, GuardLine}

Plain(lines) ==
  [lines |-> lines, copyright |-> TRUE, header |-> FALSE, guard |-> "none", ifndef |-> 0,
   endif |-> 0, endifComment |-> FALSE, open |-> 0, newline |-> TRUE, final |-> <<>>]

Header(lines, guard, endifComment) ==
  [Plain(lines) EXCEPT !.header = TRUE, !.guard = guard, !.endifComment = endifComment,
                       !.ifndef = 1, !.endif = 3]

Unfinished(lines) ==
  [Plain(lines) EXCEPT !.copyright = FALSE, !.newline = FALSE, !.open = 2,
     !.final = <<[category |-> "build/class", line |-> 2],
                 [category |-> "readability/casting", line |-> 0]>>]

Last(kinds) == {k \in kinds : k.checks = <<>> \/ k.checks[1].distance = 0}

ThreeLines(kinds) ==
  {<<a, b, c>> : a \in kinds, b \in kinds, c \in Last(kinds)}

First == Plain(<<HiddenTab, [Asm EXCEPT !.comment = TRUE], Kernel>>)

OrderRuns ==
  {<<First, f>> : f \in {Unfinished(ls) : ls \in ThreeLines(Kinds)}
                        \cup {Header(ls, "other", FALSE) : ls \in ThreeLines(Kinds)}}
    \cup {<<Header(<<Unknown, Tab, Tab>>, guard, TRUE)>> : guard \in {"none", "path"}}

LoopRuns == {<<Plain(<<a, b, HiddenTab>>)>> : a, b \in {EmptyLoop, Tab, HideNext, Asm}}

=============================================================================
