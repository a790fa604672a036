---------------------------- MODULE DeclarationTexts ----------------------------
(***************************************************************************)
(* Declarations of functions as C++ has them, written on one line or       *)
(* several, in the scopes of a text, and what should be reported on them.  *)
(* It is what the reports of Declarations are compared with, no part of    *)
(* the linter.                                                             *)
(*                                                                         *)
(* A declaration is [marks, result, name, params, specs, init, body], its  *)
(* layout [breaks, lines]: where its lines end, and the lines.  Its tokens *)
(* have marks in them: "/x" where a line may end, "&!" for the reference   *)
(* of a parameter that should be const or a pointer, and ")!" behind the   *)
(* parameters.                                                             *)
(***************************************************************************)
EXTENDS Declarations

Marks == {"/name", "/(", "/,", "/<", "/::", "/specs", "/spec", "/:", "/i"}

(* "means" tells a copy, a list of initializers and void from other parameters *)
Param(type, default, means) == [type |-> type, default |-> default, means |-> means]
ParamTokens(p) == p.type \o (IF p.default = <<>> THEN <<>> ELSE <<"=">> \o p.default)

Separated(parts, separator) ==
  FlattenSeq([i \in 1..Len(parts) |-> IF i = 1 THEN parts[1] ELSE separator \o parts[i]])

Pieces(d) ==
  d.marks \o (IF d.result = <<>> THEN <<>> ELSE d.result \o <<"/name">>) \o d.name \o <<"(", "/(">>
    \o Separated([i \in 1..Len(d.params) |-> ParamTokens(d.params[i])], <<",", "/,">>) \o <<")!", "/specs">>
    \o Separated([i \in 1..Len(d.specs) |-> <<d.specs[i]>>], <<"/spec">>)
    \o (IF d.init = <<>> THEN <<>> ELSE <<"/:", ":">> \o d.init) \o d.body

(* Its lines, still with the marks of references and parentheses *)
MarkedLines(pieces, breaks) ==
  FoldLeft(LAMBDA lines, token :
             CASE token \in breaks -> Append(lines, <<>>)
               [] token \in Marks \ breaks -> lines
               [] OTHER -> Append(Front(lines), Append(Last(lines), token)),
           <<<<>>>>, pieces)

Written(token) == CASE token = "&!" -> "&" [] token = ")!" -> ")" [] OTHER -> token
LinesOf(d) ==
  [n \in 1..Len(d.lines) |-> [k \in 1..Len(d.lines[n]) |-> Written(d.lines[n][k])]]

(* The declarations of a set, in every layout *)
LaidOut(declarations) ==
  UNION {{d @@ [breaks |-> breaks, lines |-> MarkedLines(Pieces(d), breaks)] :
            breaks \in SUBSET (ToSet(Pieces(d)) \cap d.mayBreak)} : d \in declarations}

-----------------------------------------------------------------------------
(* What should be reported, in a scope of the given kind *)

LineOf(d, token) == CHOOSE n \in DOMAIN d.lines : Has(d.lines[n], token)
OnOneLine(d) == LineOf(d, ")!") = 1

IsConstructor(d) == d.result = <<>> /\ d.name = <<"A">>
Defaulted(d) == {i \in DOMAIN d.params : d.params[i].default # <<>>}

(* It can be called with one argument *)
TakesOne(d) ==
  /\ d.params # <<>> /\ d.params[1].means # "void"
  /\ 2..Len(d.params) \subseteq Defaulted(d)

ShouldBeExplicit(d) ==
  /\ IsConstructor(d) /\ ~Has(d.marks, "explicit")
  /\ TakesOne(d) /\ d.params[1].means \notin {"copy", "list"}

ShouldNotBeExplicit(d) ==
  /\ IsConstructor(d) /\ Has(d.marks, "explicit")
  /\ d.params = <<>> \/ d.params[1].means = "void"

(* Its parameters go on over lines, or have a shift or a list in braces as *)
(* a default: the linter does not understand them.                         *)
HasUnclearParams(d) ==
  \/ ~OnOneLine(d)
  \/ \E i \in Defaulted(d) : Has(d.params[i].default, "<<") \/ Has(d.params[i].default, "{")

(* Functions that may take references *)
Overrides(d) == Has(d.specs, "override")
TakesReferences(d) == d.name \in {<<"swap">>, <<"operator", "<<">>}

References(d, kind) ==
  {n \in DOMAIN d.lines :
     /\ Has(d.lines[n], "&!")
     /\ kind \in {"file", "namespace", "class", "struct"}
     /\ ~Overrides(d) /\ ~TakesReferences(d) /\ ~Has(d.name, "::") /\ ~Ends(d.lines[n], {"\\"})}

(* Lines that the linter takes for something else: that on which           *)
(* initializers start for a part of them, and for parameters of their own  *)
(*  - those behind a reference whose line ends inside template arguments   *)
(*  - those of a function that overrides, as a later line says             *)
(*  - those of a swap or stream more than two lines behind its name        *)
(*  - the end of initializers whose colon does not start its line          *)
StartOfInitializers(d) == {n \in DOMAIN d.lines : d.init # <<>> /\ Has(d.lines[n], ":")}

Mistaken(d, kind) ==
  {n \in DOMAIN d.lines :
     \/ \E m \in References(d, kind) : m < n /\ Count(d.lines[m], {"<"}) > Count(d.lines[m], {">"})
     \/ Overrides(d) /\ LineOf(d, "override") > LineOf(d, ")!")
     \/ TakesReferences(d) /\ n > LineOf(d, Last(d.name)) + 2
     \/ /\ d.init # <<>> /\ n > LineOf(d, ":") /\ Head(d.lines[LineOf(d, ":")]) # ":"
        /\ Ends(d.lines[n], {"}"})}

RedundantVirtual(d) ==
  /\ Has(d.marks, "virtual") /\ ~Has(d.lines[1], ":")
  /\ \E v \in ToSet(d.specs) \cap {"override", "final"} : LineOf(d, v) <= LineOf(d, ")!") + 2

(* override and final on the line of the closing parenthesis or the next *)
RedundantOverride(d) ==
  {n \in DOMAIN d.lines :
     /\ n \in {LineOf(d, ")!"), LineOf(d, ")!") + 1}
     /\ {"override", "final"} \subseteq ToSet(d.lines[n]) /\ ~Has(d.lines[n], ")")}

-----------------------------------------------------------------------------
(* The declarations of the instances *)

Declaration(marks, result, name, params, specs, init, body, mayBreak) ==
  [marks |-> marks, result |-> result, name |-> name, params |-> params, specs |-> specs,
   init |-> init, body |-> body, mayBreak |-> mayBreak]

IntA == Param(<<"int", "a">>, <<>>, "other")
FooA == Param(<<"Foo", "&!", "a">>, <<>>, "other")

ConstructorParams ==
  {IntA, FooA,
   Param(<<"int", "a">>, <<"0">>, "other"),
   Param(<<"int", "a">>, <<"1", "<<", "2">>, "other"),
   Param(<<"Foo", "a">>, <<"{", "1", ",", "2", "}">>, "other"),
   Param(<<"const", "A", "&", "a">>, <<>>, "copy"),
   Param(<<"A", "const", "&", "a">>, <<>>, "copy"),
   Param(<<"A", "&&", "a">>, <<>>, "copy"),
   Param(<<"std", "::", "initializer_list", "<", "int", ">", "a">>, <<>>, "list"),
   Param(<<"function", "<", "void", "(", "int", ",", "int", ")", ">", "a">>, <<>>, "other"),
   Param(<<"Map", "<", "int", ",", "/<", "Foo", ">", "a">>, <<"Make", "(", "1", ",", "2", ")">>, "other")}

Legal(params) == \A i \in 2..Len(params) : params[i - 1].default # <<>> => params[i].default # <<>>
Pairs(first, second) == {s \in {<<p, q>> : p \in first, q \in second} : Legal(s)}

Constructors ==
  {Declaration(marks, <<>>, <<"A">>, params, <<>>, init, body, {"/,"}) :
     marks \in {<<>>, <<"explicit">>, <<"inline">>, <<"constexpr", "explicit">>, <<"explicit", "inline">>},
     params \in {<<>>, <<Param(<<"void">>, <<>>, "void")>>} \cup {<<p>> : p \in ConstructorParams}
                  \cup Pairs(ConstructorParams, ConstructorParams),
     init \in {<<>>, <<"b", "(", "a", ")">>}, body \in {<<"{">>}}

ReferenceParams ==
  {IntA, FooA,
   Param(<<"const", "Foo", "&", "a">>, <<>>, "other"),
   Param(<<"Foo", "const", "&", "a">>, <<>>, "other"),
   Param(<<"const", "Foo", "*", "&!", "a">>, <<>>, "other"),
   Param(<<"Foo", "*", "const", "&", "a">>, <<>>, "other"),
   Param(<<"std", "::", "ostream", "&", "a">>, <<>>, "other"),
   Param(<<"Foo", "&&", "a">>, <<>>, "other"),
   Param(<<"Foo", "&!", "a">>, <<"b">>, "other"),
   Param(<<"Map", "<", "int", ",", "/<", "Foo", ">", "&!", "a">>, <<>>, "other"),
   Param(<<"const", "Map", "<", "int", ",", "/<", "Foo", ">", "&", "a">>, <<>>, "other"),
   Param(<<"const", "ns", "/::", "::", "Foo", "&", "a">>, <<>>, "other"),
   Param(<<"const", "ns", "::", "/::", "Foo", "&", "a">>, <<>>, "other"),
   Param(<<"ns", "::", "/::", "Foo", "&!", "a">>, <<>>, "other")}

ReferenceLists ==
  {<<p>> : p \in ReferenceParams} \cup Pairs(ReferenceParams, {IntA, FooA})
    \cup Pairs({IntA, FooA}, ReferenceParams) \cup {<<IntA, IntA, FooA>>}

Calls == <<"{", "return", "g", "(", "a", "&", "b", ")", ";", "}">>
Wraps == {"/(", "/,", "/<", "/::", "/specs"}

Functions ==
  {Declaration(<<>>, <<"void">>, name, params, <<>>, <<>>, body, Wraps) :
     name \in {<<"F">>, <<"swap">>, <<"operator", "<<">>, <<"A", "::", "F">>},
     params \in ReferenceLists, body \in {<<";">>, Calls}}

Methods ==
  {Declaration(<<>>, <<"void">>, <<"F">>, params, specs, <<>>, body, Wraps) :
     params \in ReferenceLists, specs \in {<<>>, <<"const", "override">>},
     body \in {<<";">>, <<"\\">>, Calls}}

Initializers ==
  {Declaration(<<>>, <<>>, <<"A">>, params, <<>>, init, body, Marks) :
     params \in {<<FooA>>, <<IntA, FooA>>, <<IntA, IntA>>},
     init \in {<<"b", "(", "a", "&", "c", ")", ",", "/i", "d", "(", "e", "&", "f", ")">>,
               <<"b", "{", "a", "&", "c", "}", ",", "/i", "d", "(", "e", "&", "f", ")">>},
     body \in {<<"{">>, <<"{", "}">>}}

Virtuals ==
  {Declaration(marks, <<"void">>, <<"F">>, params, specs, <<>>, body, Marks) :
     marks \in {<<>>, <<"virtual">>},
     params \in {<<>>, <<IntA>>, <<IntA, IntA>>},
     specs \in {<<>>, <<"const">>, <<"override">>, <<"final">>, <<"const", "override">>,
                <<"override", "final">>, <<"final", "override">>, <<"const", "noexcept", "override">>},
     body \in {<<";">>, <<"{">>, <<"{", "g", "(", "a", ")", ";", "}">>,
               <<"{", "for", "(", "a", ":", "b", ")", ";", "}">>}}

(* Calls that look like declarations *)
CallStatements ==
  {Declaration(<<>>, <<>>, name, <<Param(type, <<>>, "other")>>, <<>>, <<>>, <<";">>, {"/("}) :
     name \in {<<"A">>, <<"F">>, <<"swap">>}, type \in {<<"a">>, <<"a", "&", "b">>}}

Families ==
  {[where |-> {"class", "struct"}, declarations |-> LaidOut(Constructors \cup Methods \cup Initializers \cup Virtuals)],
   [where |-> {"file", "namespace", "extern"}, declarations |-> LaidOut(Functions)],
   [where |-> {"block"}, declarations |-> LaidOut(CallStatements)]}
===============================================================================
