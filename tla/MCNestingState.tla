---------------------------- MODULE MCNestingState ----------------------------
(***************************************************************************)
(* The texts of NestingTexts, the checks that read the stack of the linter *)
(* for each of their lines, and the lines of the instances.                *)
(***************************************************************************)
EXTENDS NestingTexts, BlankLines, BraceSpacing

CONSTANT Words \* the tokens of the lines with which CheckBracesSpacing is checked

-----------------------------------------------------------------------------
(* Properties *)

(* Line n begins a scope with the brace at its end *)
Opens(n) ==
  LET means == LineAt(text, n).means
  IN means # <<>> /\ Last(means).do \in {"open", "brace"} /\ LineAt(text, n).parens <= 0

(* Line n ends a head that began on an earlier one and is indented by four, *)
(* or by six behind initializers                                           *)
BrokenHead(n) ==
  \/ LineAt(text, n).indent = 4
  \/ /\ LineAt(text, n).indent = 6
     /\ \E m \in 1..(n - 1) : /\ LineAt(text, m).part = "initializers"
                              /\ \A k \in (m + 1)..n : LineAt(text, k).indent = 6

EndsScope(line) == line.means # <<>> /\ Head(line.means) = Shut /\ Head(line.tokens) = "}"

BlankErrors(n) ==
  {error \in {"start", "end", "label"} :
     CASE error = "start" -> n > 1 /\ Opens(n - 1) /\ ~BrokenHead(n - 1)
       [] error = "end"   -> EndsScope(LineAt(text, n + 1)) /\ Len(LineAt(text, n + 1).means) = 1
       [] error = "label" -> n > 1 /\ IsLabel(LineAt(text, n - 1))}

(* The class that ended, if its head is on one line and no directive is    *)
(* around                                                                  *)
EndedClass ==
  {class \in ToSet(before) :
     /\ Ended(before, nest) /\ class = Last(before)
     /\ IsClass(class) /\ Head(LineAt(text, class.line).means).do = "open"
     /\ \A i \in 1..Len(text) : LineAt(text, i).pp = "none"}

(* The labels of the class that ended that should have a blank line in     *)
(* front: where code is that is not the head, in a class of 25 lines       *)
DirectlyIn(scope, n) == Last(Nest(SubSeq(text, 1, n))).line = scope.line
Unspaced(class) ==
  {n \in (class.line + 1)..Len(text) :
     /\ IsLabel(LineAt(text, n)) /\ DirectlyIn(class, n)
     /\ LineAt(text, n - 1).code = "code" /\ LineAt(text, n - 1).cls = "none"
     /\ n - 1 # class.line /\ Distance(text, class.line, Len(text)) > 24}

(* A blank line outside of namespaces is told to be redundant exactly if   *)
(* it is the first of a block, but not behind a head that is broken over   *)
(* several lines, or the last of one, but not before an else, or follows a *)
(* label (CheckSpacing).  In a class of at least 25 lines whose head is on *)
(* one line, a label is told to need a blank line in front exactly if code *)
(* of the class, and no declaration of a class, is there                   *)
(* (CheckSectionSpacing).                                                  *)
BlankLinesReported ==
  /\ Len(text) > 1 /\ LineAt(text, Len(text) - 1).code = "blank" =>
       CheckBlankLine(text, Len(text) - 1, previous_stack_top) =
         IF before # <<>> /\ Last(before).kind \in {"namespace", "extern"} THEN {} ELSE BlankErrors(Len(text) - 1)
  /\ \A class \in EndedClass :
       {n \in (class.line + 1)..Len(text) :
          CheckSectionSpacing(text, n, previous_stack_top) /\ DirectlyIn(class, n)} = Unspaced(class)

(* The stack behind line n *)
StackBehind(n) ==
  FoldLeft(LAMBDA s, i : Updated(s, LineAt(text, i), i), [stack |-> <<>>, pp_stack |-> <<>>],
           [i \in 1..n |-> i]).stack

(* The scopes behind each line *)
Nests == [n \in DOMAIN text |-> Nest(SubSeq(text, 1, n))]

(* Line n declares a template with that type, or is the line behind it     *)
Declares(n, type) == Has(Words[text[n]], "template") /\ Introduces(Words[text[n]], type)
HasParameter(scope, type) ==
  Declares(scope.line, type) \/ (scope.line > 1 /\ Declares(scope.line - 1, type))

(* The scopes up to the innermost namespace *)
Local(scopes) ==
  LET namespaces == SelectLastInSeq(scopes, LAMBDA scope : scope.kind = "namespace")
  IN SubSeq(scopes, namespaces + 1, Len(scopes))

(* Within two lines behind the block of line n its class ends, and only    *)
(* the ends of scopes are in between                                       *)
ClassEndsBehind(nests, n) ==
  LET ends == {e \in (n + 1)..Len(text) : Len(nests[e]) < Len(nests[n])}
  IN \E e \in {x \in ends : \A y \in ends : x <= y} : \E j \in {e + 1, e + 2} \cap 1..Len(text) :
       /\ \A i \in e..j : EndsScope(LineAt(text, i))
       /\ IsClass(Last(nests[j - 1]))

(* A brace behind a word that is a type parameter of a template around it  *)
(* is never told to need a blank, however deep it is in the blocks of that *)
(* template, and any other word is taken for one only if a template that   *)
(* is declared before, in the same namespace, has a parameter of its name. *)
(* The brace of a statement is always told to need one, but for a class    *)
(* that ends right behind it (CheckBracesSpacing, _IsType).                *)
BracesSpaced ==
  completed /\ ToSet(text) \subseteq DOMAIN Words =>
    \E nests \in {Nests} : \A n \in {m \in 1..Len(text) : TightBrace(Words[text[m]]) > 0} :
      \E told \in {CheckBracesSpacing([i \in DOMAIN text |-> Words[text[i]]], n, StackBehind(n))} :
        IF Opens(n) THEN told <=> ~ClassEndsBehind(nests, n)
        ELSE /\ (\E scope \in ToSet(Local(nests[n])) : HasParameter(scope, "T")) => ~told
             /\ ~told => \E m \in 1..n : /\ Declares(m, "T")
                                         /\ \A scope \in ToSet(nests[n]) :
                                              scope.kind = "namespace" => scope.line < m

(* The lines of the declaration on which a check reports an error *)
Reported(Check(_, _), error) ==
  LET heads == [n \in DOMAIN text |-> HeadTokens[text[n]]]
      all == heads \o LinesOf(item)
  IN {n \in 1..Len(item.lines) : error \in Check(all, Len(heads) + n)}

Kind == Innermost(nest)
InClassDeclared == Kind \in {"class", "struct"}
InClass == \E scope \in ToSet(nest) : IsClass(scope)

(* A constructor in a class, whatever its marks, templates, defaults and   *)
(* initializers, is told to be explicit exactly if it can be called with   *)
(* one argument and is no copy and takes no list, told not to be exactly   *)
(* if it is marked and takes none, and the check ends without an           *)
(* exception; nothing is told of other functions and outside of classes    *)
(* (CheckForNonStandardConstructs).  It does not speak of parameters over  *)
(* several lines, of shifts and lists in braces as defaults, nor of calls  *)
(* of A in the methods of a class A.                                       *)
ExplicitReported ==
  /\ item # NoItem
  /\ IsConstructor(item) => ~HasUnclearParams(item) /\ (InClass => InClassDeclared)
  => LET errors == CASE InClassDeclared /\ ShouldBeExplicit(item) -> {"explicit"}
                     [] InClassDeclared /\ ShouldNotBeExplicit(item) -> {"not explicit"}
                     [] OTHER -> {}
     IN \A error \in {"raises", "explicit", "not explicit"} :
          Reported(CheckConstructor, error) = IF error \in errors THEN {1} ELSE {}

(* However its parameters are spread over lines, each line with a          *)
(* non-const reference is told of it, and no other line that has an        *)
(* ampersand, be it in initializers or a body (CheckForNonConstReference). *)
(* A function may take references that overrides, is defined out of its    *)
(* class, swaps or streams, or is no declaration of a file, namespace or   *)
(* class, and so may a line that goes on in a macro.  Nothing is said of   *)
(* the line on which initializers start, where a reference may go untold,  *)
(* nor of the lines of Mistaken, of which more may be told.                *)
ReferencesReported ==
  item # NoItem =>
    LET told == Reported(CheckForNonConstReference, "reference")
        blamed == References(item, Kind)
    IN /\ blamed \subseteq told \cup StartOfInitializers(item)
       /\ told \subseteq blamed \cup Mistaken(item, Kind)

(* A function is told that virtual is redundant exactly if override or     *)
(* final follow within two lines of its parameters, and that override is   *)
(* if final is on the same line and that line is the one where the         *)
(* parameters end or the next (CheckRedundantVirtual,                      *)
(* CheckRedundantOverrideOrFinal).  A lone colon on the line hides the     *)
(* first, a parenthesis behind the specifiers the second.                  *)
VirtSpecifiersReported ==
  item # NoItem =>
    /\ Reported(CheckRedundantVirtual, "virtual") = IF RedundantVirtual(item) THEN {1} ELSE {}
    /\ Reported(CheckRedundantOverrideOrFinal, "override") = RedundantOverride(item)

-----------------------------------------------------------------------------
(* The lines of the instances *)
(* "sees" has what is not the default of an empty line *)
Blank == [pp |-> "none", parens |-> 0, asm |-> FALSE, ns |-> <<>>, cls |-> "none",
          targ |-> FALSE, access |-> "none", tokens |-> <<>>,
          indent |-> 0, forward |-> FALSE, macro |-> "no", name |-> "A", code |-> "code",
          closes |-> "none", disallow |-> "none", times |-> 1, part |-> "none"]
Line(source, sees, where, means) ==
  source :> (sees @@ Blank @@ [where |-> where, means |-> means])

Outside == {"file", "namespace", "extern"}
Declaring == Outside \cup {"class", "struct"}
Everywhere == Declaring \cup {"block", "head", "params", "inits", "args", "asm"}

Directives ==
  Line("#if", [pp |-> "if"], Everywhere, <<>>) @@
  Line("#else", [pp |-> "else"], Everywhere, <<>>) @@
  Line("#endif", [pp |-> "endif"], Everywhere, <<>>)

(* Classes and structs *)
ClassOpen == Line("class A : public B {", [cls |-> "class", tokens |-> <<"{">>],
                  Declaring \cup {"block"}, <<Open("class")>>)
ClassEnd == Line("};", [tokens |-> <<"}", ";">>], {"class", "struct"}, <<Shut>>)
AccessLine == Line("public:", [access |-> "public"], {"class", "struct"}, <<Label("public")>>)
ClassHead == Line("class A", [cls |-> "class"], Declaring, <<Unbraced("class")>>)
BaseBrace == Line("public B {", [tokens |-> <<"{">>], {"head"}, <<Brace>>)

MoreClasses ==
  Line("struct A :", [cls |-> "struct"], Declaring, <<Unbraced("struct")>>) @@
  Line("class A;", [cls |-> "class", forward |-> TRUE, tokens |-> <<";">>],
       Declaring \cup {"block"}, <<>>) @@
  Line("class A { protected:", [cls |-> "class", access |-> "protected", tokens |-> <<"{">>],
       Declaring, <<Open("class"), Label("protected")>>) @@
  Line("class T>", [cls |-> "class", targ |-> TRUE], Declaring, <<>>)

(* Namespaces and linkage *)
NamespaceOpen == Line("namespace a {", [ns |-> <<TRUE>>, name |-> "a"], {"file", "namespace"},
                      <<Open("namespace")>>)
NamespaceEnd == Line("}  // namespace", [closes |-> "anonymous", tokens |-> <<"}">>], {"namespace", "extern"}, <<Shut>>)
NamespaceLines ==
  NamespaceOpen @@
  Line("namespace a { namespace b { class C; } }",
       [ns |-> <<TRUE, TRUE>>, cls |-> "class", tokens |-> <<";", "}", "}">>],
       {"file", "namespace"}, <<>>) @@
  Line("namespace a", [ns |-> <<FALSE>>, name |-> "a"], {"file", "namespace"}, <<Unbraced("namespace")>>) @@
  Line("{", [tokens |-> <<"{">>], {"head"}, <<Brace>>) @@
  Line("namespace a = b;", [ns |-> <<FALSE>>, tokens |-> <<";">>], {"file", "namespace"}, <<>>) @@
  NamespaceEnd @@
  Line("extern C {", [tokens |-> <<"extern {">>], {"file", "namespace"}, <<Open("extern")>>)

(* Functions and their statements *)
Function == Line("void F(struct A* a) {", [tokens |-> <<")", "{">>], Declaring, <<Open("block")>>)
BlockEnd == Line("}", [tokens |-> <<"}">>], {"block"}, <<Shut>>)
Call == Line("Call(a,", [parens |-> 1], {"block"}, <<Open("args")>>)
CallEnd == Line("b);", [parens |-> -1, tokens |-> <<")", ";">>], {"args"}, <<Shut>>)

Head1 == Line("void F(int a,", [parens |-> 1], Declaring, <<Open("params")>>)
Heads ==
  Head1 @@
  Line("struct A* Make(int a,", [cls |-> "struct", parens |-> 1], Declaring, <<Open("params")>>) @@
  Line("struct A* b) {", [cls |-> "struct", parens |-> -1, tokens |-> <<")", "{">>],
       {"params"}, <<Shut, Open("block")>>) @@
  Line("struct A* b);", [cls |-> "struct", parens |-> -1, tokens |-> <<")", ";">>],
       {"params"}, <<Shut>>)

Statements ==
  Line("if (a) {", [tokens |-> <<")", "{">>], {"block"}, <<Open("block")>>) @@
  Line("} else {", [tokens |-> <<"}", "{">>], {"block"}, <<Shut, Open("block")>>) @@
  Line("struct A a = {1};", [cls |-> "struct", targ |-> TRUE, tokens |-> <<"{", "}", ";">>],
       {"block"}, <<>>)

(* Assembly *)
Asm ==
  Line("asm volatile(", [parens |-> 1, asm |-> TRUE], {"block"}, <<Open("asm")>>) @@
  Line("movl", Blank, {"asm"}, <<>>) @@
  Line(");", [parens |-> -1, tokens |-> <<")", ";">>], {"asm"}, <<Shut>>) @@
  Line("asm(nop);", [asm |-> TRUE, tokens |-> <<")", ";">>], {"block"}, <<>>)

(* Lines that are indented *)
Indented ==
  Line("  class A {", [indent |-> 2, cls |-> "class", tokens |-> <<"{">>],
       Declaring \cup {"block"}, <<Open("class")>>) @@
  Line("  struct A", [indent |-> 2, cls |-> "struct"], Declaring, <<Unbraced("struct")>>) @@
  Line("  {", [indent |-> 2, tokens |-> <<"{">>], {"head"}, <<Brace>>) @@
  Line("  };", [indent |-> 2, tokens |-> <<"}", ";">>], {"class", "struct"}, <<Shut>>) @@
  Line("  class A;", [indent |-> 2, cls |-> "class", forward |-> TRUE, tokens |-> <<";">>],
       Declaring \cup {"block"}, <<>>) @@
  Line("  namespace a {", [indent |-> 2, ns |-> <<TRUE>>, name |-> "a"], {"file", "namespace"},
       <<Open("namespace")>>) @@
  Line("  #else", [indent |-> 2, pp |-> "else"], Everywhere, <<>>) @@
  Line("#define M \\", [macro |-> "define"], Declaring, <<Open("macro")>>) @@
  Line("  friend class A;", [indent |-> 2, forward |-> TRUE, tokens |-> <<";">>],
       {"macro"}, <<Shut>>)

(* What is in a class or namespace, and its end *)
Member == Line("int a;", [tokens |-> <<";">>], {"class", "namespace"}, <<>>)
Comment == Line("// comment", [code |-> "comment"], {"class", "block"}, <<>>)
Eight == Line("eight lines", [tokens |-> <<";">>, times |-> 8], {"namespace"}, <<>>)
Many == Line("22 lines", [tokens |-> <<";">>, times |-> 22], {"class"}, <<>>)
Anonymous == Line("namespace {", [ns |-> <<TRUE>>, name |-> "anonymous"], {"file", "namespace"},
                  <<Open("namespace")>>)
EndOfA == Line("}  // namespace a", [closes |-> "a", tokens |-> <<"}">>], {"namespace"}, <<Shut>>)
Disallow == Line("DISALLOW_COPY_AND_ASSIGN(A);", [disallow |-> "A", tokens |-> <<")", ";">>], {"class"}, <<>>)

(* Blank lines, and heads of functions over several lines *)
Empty == Line("", [code |-> "blank"], Declaring \cup {"block"}, <<>>)
BrokenHeads ==
  Line("    int b) {", [indent |-> 4, part |-> "parameters", parens |-> -1, tokens |-> <<")", "{">>],
       {"params"}, <<Shut, Open("block")>>) @@
  Line("A()", [tokens |-> <<")">>], {"file"}, <<Open("inits")>>) @@
  Line("    : a(0),", [indent |-> 4, part |-> "initializers", tokens |-> <<")">>], {"inits"}, <<>>) @@
  Line("      b(1) {", [indent |-> 6, part |-> "initializer", tokens |-> <<")", "{">>],
       {"inits"}, <<Shut, Open("block")>>) @@
  Line("      if (a) {", [indent |-> 6, part |-> "initializer", tokens |-> <<")", "{">>],
       {"block"}, <<Open("block")>>)

(* Templates, and braces with no blank in front of them *)
Templates ==
  Line("template <class T>", Blank, Declaring, <<>>) @@
  Line("template <class U>", Blank, Declaring, <<>>) @@
  Line("template <class T> class A {", [cls |-> "class", tokens |-> <<"{">>], Declaring, <<Open("class")>>) @@
  Line("int b = T{1} + 2;", [tokens |-> <<"{", "}", ";">>], {"class", "block"}, <<>>)
TightIf == Line("if (a){", [tokens |-> <<")", "{">>], {"block"}, <<Open("block")>>)

BranchLines == Directives @@ ClassOpen @@ ClassHead @@ BaseBrace @@ AccessLine @@ ClassEnd

ScopeLines ==
  ClassOpen @@ ClassHead @@ BaseBrace @@ AccessLine @@ ClassEnd @@ MoreClasses @@ NamespaceLines @@
  Function @@ Heads @@ Call @@ CallEnd @@ Statements @@ BlockEnd

LayoutLines ==
  Directives @@ NamespaceOpen @@ NamespaceEnd @@ ClassOpen @@ ClassEnd @@ Indented

AsmLines == Directives @@ Function @@ Asm @@ Call @@ CallEnd @@ BlockEnd

NamespaceEnds == Directives @@ NamespaceOpen @@ Anonymous @@ NamespaceEnd @@ EndOfA @@ Member @@ Eight
ClassEnds == Directives @@ ClassOpen @@ Member @@ Comment @@ Disallow @@ ClassEnd
Sections ==
  ClassOpen @@ AccessLine @@ Empty @@ Many @@ Comment @@ Function @@ BlockEnd @@ ClassEnd
BlankTexts ==
  Function @@ Head1 @@ BrokenHeads @@ Empty @@ Statements @@ Comment @@ BlockEnd @@ NamespaceOpen @@ NamespaceEnd

TypeLines ==
  Templates @@ TightIf @@ ClassOpen @@ ClassEnd @@ Function @@ BlockEnd @@ NamespaceOpen @@ NamespaceEnd
TightLines == TightIf @@ ClassOpen @@ ClassEnd @@ Function @@ BlockEnd @@ Member

Alphabet(source, length) == [lines |-> DOMAIN source, length |-> length]

AllLines ==
  BranchLines @@ ScopeLines @@ AsmLines @@ LayoutLines @@ NamespaceEnds @@ ClassEnds @@ Sections @@ BlankTexts @@ TypeLines
AllAlphabets == {Alphabet(BranchLines, 6), Alphabet(ScopeLines, 4), Alphabet(AsmLines, 6),
                 Alphabet(LayoutLines, 5), Alphabet(NamespaceEnds, 5), Alphabet(ClassEnds, 5),
                 Alphabet(Sections, 6), Alphabet(BlankTexts, 5),
                 Alphabet(TypeLines, 5), Alphabet(TightLines, 6)}

ScopeHeads ==
  "class A : public B {" :> <<"class", "A", ":", "public", "B", "{">> @@
  "namespace a {" :> <<"namespace", "a", "{">> @@
  "extern C {" :> <<"extern", "C", "{">> @@
  "void F(struct A* a) {" :> <<"void", "F", "(", "struct", "A", "*", "a", ")", "{">>

TightWords ==
  ScopeHeads @@
  "template <class T>" :> <<"template", "<", "class", "T", ">">> @@
  "template <class U>" :> <<"template", "<", "class", "U", ">">> @@
  "template <class T> class A {" :> <<"template", "<", "class", "T", ">", "class", "A", "{">> @@
  "if (a){" :> <<"if", "(", "a", ")", "{!">> @@
  "int b = T{1} + 2;" :> <<"int", "b", "=", "T", "{!", "1", "}", "+", "2", ";">> @@
  "int a;" :> <<"int", "a", ";">> @@
  "};" :> <<"}", ";">> @@
  "}" :> <<"}">> @@
  "}  // namespace" :> <<"}">>
===============================================================================
