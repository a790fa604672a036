------------------------------ MODULE Declarations ------------------------------
(***************************************************************************)
(* What the linter says about the declaration of a function, line by line  *)
(* and with the stack of NestingState: constructors that should be         *)
(* explicit (CheckForNonStandardConstructs), parameters that are non-const *)
(* references (CheckForNonConstReference), and redundant virtual and       *)
(* override (CheckRedundantVirtual, CheckRedundantOverrideOrFinal).        *)
(*                                                                         *)
(* The lines are token lines; those in a class are indented, and A is the  *)
(* name of every class.                                                    *)
(***************************************************************************)
EXTENDS NestingState, TokenLines

-----------------------------------------------------------------------------
(* Constructors *)

InnermostClass ==
  Top(SelectSeq(stack, IsClass))

(* Mutant: commas inside parentheses end an argument *)
OpenAngles(arg) == Count(arg, {"<"}) > Count(arg, {">"})

(* count('<') sees the two of a shift *)
Collapses(arg) ==
  \/ Count(arg, {"<"}) + (2 * Count(arg, {"<<"})) > Count(arg, {">"})
  \/ Count(arg, {"("}) > Count(arg, {")"})

(* The text between the parentheses, at the commas that end an argument *)
ConstructorArgs(tokens) ==
  IF tokens = <<>> THEN <<>>
  ELSE FoldLeft(LAMBDA args, token :
                  IF token = "," /\ ~Collapses(Last(args)) THEN Append(args, <<>>)
                  ELSE Append(Front(args), Append(Last(args), token)),
                <<<<>>>>, tokens)

ConstructorMarks == {"inline", "constexpr", "explicit"}

(* Where the name of a constructor is on a line that starts with its declaration *)
ConstructorAt(line) ==
  {k \in 1..(Len(line) - 1) :
     /\ line[k] = "A" /\ line[k + 1] = "("
     /\ \A i \in 1..(k - 1) : line[i] \in ConstructorMarks
     /\ Count(SubSeq(line, 1, k), {"explicit"}) <= 1
     /\ CloseParen(<<line>>, 1, k + 1) # NoPlace}

IsCopy(arg) ==
  LET type == IF arg # <<>> /\ Head(arg) = "const" THEN Tail(arg) ELSE arg
  IN \/ Len(type) > 1 /\ type[1] = "A" /\ type[2] \in {"&", "&&"}
     \/ Len(type) > 2 /\ type[1] = "A" /\ type[2] = "const" /\ type[3] \in {"&", "&&"}

IsInitializerListArg(arg) ==
  \E i \in 1..(Len(arg) - 2) : SubSeq(arg, i, i + 2) = <<"std", "::", "initializer_list">>

ExplicitError(line, k) ==
  LET args == ConstructorArgs(SubSeq(line, k + 2, CloseParen(<<line>>, 1, k + 1).at - 1))
      marked == Has(SubSeq(line, 1, k), "explicit")
      defaulted == Cardinality({i \in DOMAIN args : Has(args[i], "=")})
      noarg == args \in {<<>>, <<<<"void">>>>}
      onearg == ~noarg /\ (Len(args) = 1 \/ defaulted >= Len(args) - 1)
  IN IF args # <<>> /\ Collapses(Last(args)) THEN {"raises"} \* IndexError of constructor_args[i + 1]
     ELSE IF ~marked /\ onearg /\ ~IsInitializerListArg(args[1]) /\ ~IsCopy(args[1]) THEN {"explicit"}
     ELSE IF marked /\ noarg THEN {"not explicit"}
     ELSE {}

CheckConstructor(lines, n) ==
  IF InnermostClass = NoBlock \/ ~InnermostClass.seen_open_brace THEN {}
  ELSE UNION {ExplicitError(lines[n], k) : k \in ConstructorAt(lines[n])}

-----------------------------------------------------------------------------
(* Non-const references.  n is a line, the others are those around it. *)

FirstParen(line) == SelectInSeq(line, LAMBDA token : token \in {"(", ")"})
IsCallHead(line) ==
  LET k == FirstParen(line) IN k > 1 /\ line[k] = "(" /\ IsWord(line[k - 1])

(* The line where the current function starts, 0 if it is not near *)
HeadLine(lines, n) ==
  Max({0} \cup {i \in Max({1, n - 9})..n : IsCallHead(lines[i])})

IsDerivedFunction(lines, n) ==
  LET i == HeadLine(lines, n)
  IN i > 0 /\ \E close \in {CloseParen(lines, i, FirstParen(lines[i]))} :
                close # NoPlace /\ Has(Behind(lines[close.line], close.at), "override")

IsOutOfLineMethodDefinition(lines, n) ==
  LET i == HeadLine(lines, n)
      k == FirstParen(lines[i])
  IN i > 0 /\ k > 3 /\ lines[i][k - 2] = "::" /\ IsWord(lines[i][k - 3])

(* Names, angles and :: with no blank between them *)
Tight(line) ==
  /\ \A i \in DOMAIN line : IsWord(line[i]) \/ line[i] \in {"<", ">", "::"}
  /\ \A i \in 1..(Len(line) - 1) : IsWord(line[i + 1]) => line[i] \in {"<", "::"}

(* The type at the end of a line, with its const *)
TypeTail(line) ==
  LET tails == {k \in DOMAIN line : Tight(Behind(line, k - 1))}
      k == Min(tails)
  IN IF tails = {} THEN <<>>
     ELSE Behind(line, IF k > 1 /\ line[k - 1] = "const" THEN k - 2 ELSE k - 1)

(* The line starts with the rest of a type, and a reference *)
StartsInType(line) ==
  \E k \in 2..(Len(line) - 1) : line[k] \in {"&", "&&"} /\ Tight(SubSeq(line, 1, k - 1))

PreviousType(lines, n) ==
  IF StartsInType(lines[n]) /\ (Ends(lines[n - 1], {"::"}) <=> IsWord(lines[n][1]))
  THEN TypeTail(lines[n - 1])
  ELSE <<>>

(* The line with the part of a type or of template arguments that is on others *)
Joined(lines, n) ==
  LET angle == SelectLastInSeq(lines[n], LAMBDA token : token = ">")
      open == IF angle = 0 THEN NoPlace ELSE OpenAngle(lines, n, angle)
  IN CASE n = 1 -> lines[n]
       [] n > 1 /\ PreviousType(lines, n) # <<>> -> PreviousType(lines, n) \o lines[n]
       [] n > 1 /\ PreviousType(lines, n) = <<>> /\ open # NoPlace ->
            FlattenSeq(SubSeq(lines, open.line, n))
       [] OTHER -> lines[n]

(* Mutant: a line that only goes on with a list of initializers is checked *)
NoListBefore(lines, n) == FALSE

FollowsInitializer(lines, n) ==
  \E i \in Max({1, n - 9})..(n - 1) :
    /\ lines[i] # <<>> /\ Head(lines[i]) = ":"
    /\ \A j \in i..(n - 1) : Ends(lines[j], {")", ","})

StartsInitializers(line) ==
  \/ \E i \in 1..(Len(line) - 2) : line[i] = ":" /\ IsWord(line[i + 1]) /\ line[i + 2] \in {"(", "{"}
  \/ Ends(line, {","}) /\ Ends(Front(line), {"}"})

IsInitializerList(lines, n) ==
  LET Seen(i) == IF i = n /\ Ends(lines[i], {"{"}) THEN Front(lines[i]) ELSE lines[i]
      telling == {i \in 2..n : StartsInitializers(Seen(i)) \/ Ends(Seen(i), {"{", "}", ";"})}
  IN telling # {} /\ StartsInitializers(Seen(Max(telling)))

Whitelisted(line) ==
  \E k \in 2..Len(line) :
    /\ line[k] = "("
    /\ \/ line[k - 1] \in {"swap", "static_assert"}
       \/ line[k - 1] = "<<" /\ k > 2 /\ line[k - 2] = "operator"

OpensCall(line) == \E k \in 2..Len(line) : line[k] = "(" /\ ~Has(Behind(line, k), ")")

IsWhitelisted(lines, n, line) ==
  \/ Whitelisted(line)
  \/ ~OpensCall(line) /\ \E i \in {n - 1, n - 2} \cap DOMAIN lines : Whitelisted(lines[i])

WithoutBodies(line) ==
  LET InBody(i) == \E j \in 1..i : /\ line[j] = "{"
                                   /\ \E k \in i..Len(line) : /\ line[k] = "}"
                                                              /\ ~Has(SubSeq(line, j, k - 1), "}")
  IN FlattenSeq([i \in 1..Len(line) |-> IF InBody(i) THEN <<>> ELSE <<line[i]>>])

(* _RE_PATTERN_TYPE without const: words, :: and template arguments, with no blanks *)
IsType(type) ==
  LET Depth(i) == Count(SubSeq(type, 1, i), {"<"}) - Count(SubSeq(type, 1, i - 1), {">"})
      Outer(i) == Depth(i) = 0
  IN /\ type # <<>>
     /\ Count(type, {"<"}) = Count(type, {">"})
     /\ \A i \in DOMAIN type : Depth(i) >= 0 /\ (Outer(i) => IsWord(type[i]) \/ type[i] = "::")
     /\ \A i \in 1..(Len(type) - 1) :
          Outer(i + 1) /\ IsWord(type[i + 1]) => type[i] = "::"

(* The name and default behind the & at k *)
IsParameterEnd(line, k) ==
  /\ k + 2 <= Len(line) /\ IsWord(line[k + 1])
  /\ \/ line[k + 2] \in {",", ")"}
     \/ /\ line[k + 2] = "="
        /\ LET end == SelectInSubSeq(line, k + 3, Len(line), LAMBDA token : token \in {",", "(", ")"})
           IN end > k + 3 /\ line[end] # "("

(* The parameter that ends in the & at k is no const reference and no stream *)
IsNonConst(line, k) ==
  LET m == CHOOSE m \in 1..k : /\ m > 1 => line[m - 1] \notin {"const", "*"}
                               /\ \A i \in m..(k - 1) : line[i] \in {"const", "*"}
      starts == {i \in 1..(m - 1) : IsType(SubSeq(line, i, m - 1))}
      s == Min(starts)
  IN /\ starts # {}
     /\ line[k - 1] # "const"
     /\ m = k => ~(s > 1 /\ line[s - 1] = "const") /\ line[k - 1] \notin {"ostream", "istream"}

CheckForNonConstReference(lines, n) ==
  LET line == Joined(lines, n)
      decls == WithoutBodies(line)
  IN IF /\ lines[n] # <<>> /\ (Has(lines[n], "&") \/ Has(lines[n], "&&"))
        /\ ~IsDerivedFunction(lines, n)
        /\ ~IsOutOfLineMethodDefinition(lines, n)
        /\ stack # <<>> => IsClass(Top(stack)) \/ Top(stack).kind = "namespace"
        /\ ~FollowsInitializer(lines, n)
        /\ ~Ends(line, {"\\"})
        /\ ~IsInitializerList(lines, n)
        /\ ~IsWhitelisted(lines, n, line)
        /\ \E k \in DOMAIN decls : decls[k] = "&" /\ IsParameterEnd(decls, k) /\ IsNonConst(decls, k)
     THEN {"reference"} ELSE {}

-----------------------------------------------------------------------------
(* virtual, override and final *)

VirtSpecifiers == {"override", "final"}
Access == {"public", "protected", "private"}

EndsInWord(line) == line = <<>> \/ IsWord(Last(line))

(* Mutant: only the line of the closing parenthesis is read *)
SameLine(fragments) == \E v \in VirtSpecifiers : Has(Head(fragments), v)

(* What is behind the parameters, up to three lines of it *)
VirtSpecifierFollows(fragments) ==
  \E i \in DOMAIN fragments :
    /\ \E v \in VirtSpecifiers : Has(fragments[i], v)
    /\ \A j \in 1..(i - 1) : EndsInWord(fragments[j])

CheckRedundantVirtual(lines, n) ==
  LET line == lines[n]
      k == SelectLastInSeq(line, LAMBDA token : token = "virtual")
      opens == {i \in n..Min({n + 2, Len(lines)}) : Has(lines[i], "(")}
      open == Min(opens)
      close == CloseParen(lines, open, SelectInSeq(lines[open], LAMBDA token : token = "("))
      fragments == <<Behind(lines[close.line], close.at)>>
                     \o SubSeq(lines, close.line + 1, Min({close.line + 2, Len(lines)}))
  IN IF /\ k > 0
        /\ k > 1 => line[k - 1] \notin Access
        /\ k < Len(line) => line[k + 1] \notin Access
        /\ ~Has(Front(line), ":")
        /\ opens # {} /\ close # NoPlace
        /\ VirtSpecifierFollows(fragments)
     THEN {"virtual"} ELSE {}

CheckRedundantOverrideOrFinal(lines, n) ==
  LET end == SelectLastInSeq(lines[n], LAMBDA token : token = ")")
  IN IF /\ end > 0 \/ (n > 1 /\ Has(lines[n - 1], ")"))
        /\ \A v \in VirtSpecifiers : Has(Behind(lines[n], end), v)
     THEN {"override"} ELSE {}

===============================================================================
