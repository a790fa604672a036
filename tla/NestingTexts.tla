----------------------------- MODULE NestingTexts -----------------------------
(***************************************************************************)
(* NestingState on C++ text that compiles in at least the branch that is   *)
(* read: what the text means is defined here from the text alone, without  *)
(* any checkpoint, and the stack of the linter is compared with it.        *)
(*                                                                         *)
(* A line has two more fields: "where" says in which scopes it may stand,  *)
(* and "means" what it does to the scopes of the program, a sequence of    *)
(*   [do |-> "open"/"head", kind]   a scope with or without its brace      *)
(*   [do |-> "brace"/"close"]       of the innermost scope                 *)
(*   [do |-> "label", kind]         its access                             *)
(* Next to the blocks of the linter there are scopes that only the         *)
(* innermost one can be: "params" (of a function head), "inits" (its       *)
(* initializers), "args" (of a call), "asm" (a parenthesised one) and      *)
(* "macro" (its definition goes on).                                       *)
(***************************************************************************)
EXTENDS DeclarationTexts

CONSTANTS
  Alphabets,  \* records of a set of lines and the length of its texts
  HeadTokens, \* the tokens of the lines that may be in front of a declaration
  MaxScopes   \* bound on the number of scopes around a declaration

VARIABLES
  nest,   \* the scopes of the text, the innermost one last
  before, \* those in front of its last line
  item    \* the declaration that follows the text, NoItem before it

Open(kind) == [do |-> "open", kind |-> kind]
Unbraced(kind) == [do |-> "head", kind |-> kind]
Label(kind) == [do |-> "label", kind |-> kind]
Brace == [do |-> "brace"]
Shut == [do |-> "close"]

OpenIfs(t) == {i \in Conditionals(t) : IsOpen(t, i, Len(t))}

Scope(kind, braced, line) ==
  [kind |-> kind, braced |-> braced, line |-> line,
   access |-> CASE kind = "class" -> "private" [] kind = "struct" -> "public" [] OTHER -> "none"]

Do(scopes, event, line) ==
  CASE event.do = "open"  -> Append(scopes, Scope(event.kind, TRUE, line))
    [] event.do = "head"  -> Append(scopes, Scope(event.kind, FALSE, line))
    [] event.do = "brace" -> ChangeTop(scopes, [Last(scopes) EXCEPT !.braced = TRUE])
    [] event.do = "close" -> Front(scopes)
    [] event.do = "label" -> ChangeTop(scopes, [Last(scopes) EXCEPT !.access = event.kind])

(* The scopes behind the first events of line n, and behind all of them *)
Doing(scopes, line, n) ==
  LET done[k \in 0..Len(line.means)] ==
        IF k = 0 THEN scopes ELSE Do(done[k - 1], line.means[k], n)
  IN done
DoLine(scopes, line, n) == Doing(scopes, line, n)[Len(line.means)]

(* The scopes at the end of a text, and those at the end of its next line  *)
Nest(t) ==
  LET others == OtherBranches(t)
      behind[n \in 0..Len(t)] ==
        IF n = 0 THEN <<>>
        ELSE IF n \in others THEN behind[n - 1] ELSE DoLine(behind[n - 1], Source[t[n]], n)
  IN behind[Len(t)]
NestOfNext(t) ==
  IF Source[Last(t)].pp # "none" THEN Nest(t) ELSE DoLine(nest, Source[Last(t)], Len(t))

Innermost(scopes) ==
  CASE scopes = <<>>          -> "file"
    [] scopes # <<>> /\ ~Last(scopes).braced -> "head"
    [] scopes # <<>> /\ Last(scopes).braced  -> Last(scopes).kind

(* The blocks among the scopes, and the innermost scope if it is none *)
Hidden == {"params", "inits", "args", "asm", "macro"}
Within(scopes) ==
  IF scopes # <<>> /\ Last(scopes).kind \in Hidden THEN Last(scopes).kind ELSE "none"
BlocksOf(scopes) == IF Within(scopes) = "none" THEN scopes ELSE Front(scopes)

-----------------------------------------------------------------------------
(* What the lines of a text may be *)

IsBlock(block, scope) ==
  /\ block.kind = scope.kind
  /\ block.seen_open_brace = scope.braced
  /\ block.starting_linenum = scope.line
  /\ block.access = scope.access

Accesses == {"private", "public", "none"} \cup {Source[x].access : x \in DOMAIN Source}

(* A block that is that of a scope.  Only the innermost one may be without *)
(* a brace, in a parenthesis, or in assembly or just behind it.            *)
Covers(block, scope, innermost, within) ==
  /\ IsBlock(block, scope)
  /\ block.kind \in Kinds /\ block.access \in Accesses /\ scope.braced \in BOOLEAN
  /\ ~innermost \/ within # "none" => block.seen_open_brace
  /\ block.open_parentheses = IF innermost /\ within \in {"params", "args", "asm"} THEN 1 ELSE 0
  /\ block.inline_asm \in
       IF ~innermost THEN {"no"} ELSE IF within = "asm" THEN {"inside"} ELSE {"no", "end"}

(* In the parameters of a function of the file the struct of its result    *)
(* may still look like a declaration.                                      *)
IsHead(block) ==
  /\ block.kind \in Kinds /\ block.access \in Accesses
  /\ block.seen_open_brace = FALSE /\ block.open_parentheses = 0 /\ block.inline_asm = "no"

(* The stack is that of these blocks *)
Fits(s, blocks, within) ==
  /\ \/ Len(s) = Len(blocks)
     \/ within = "params" /\ Len(blocks) = 0 /\ Len(s) = 1 /\ IsHead(s[1])
  /\ within = "asm" => Len(blocks) > 0
  /\ \A i \in 1..Len(blocks) : Covers(s[i], blocks[i], i = Len(blocks), within)

Matches(s, scopes) ==
  /\ Fits(s, BlocksOf(scopes), Within(scopes))
  /\ Within(scopes) # "none" => Last(scopes).braced = TRUE /\ Last(scopes).access = "none"

(* The smallest texts a line can be in: at most one block, of line 1, and  *)
(* what is open in it                                                      *)
SmallBlock(kind, braced, depth, asm, access) ==
  [kind |-> kind, seen_open_brace |-> braced, starting_linenum |-> 1, open_parentheses |-> depth,
   inline_asm |-> asm, class_indent |-> 0, access |-> access]
SmallScope(kind, braced, access) == [kind |-> kind, braced |-> braced, line |-> 1, access |-> access]

SmallStacks ==
  {<<>>} \cup {<<SmallBlock(kind, braced, depth, asm, access)>> :
                 kind \in Kinds, braced \in BOOLEAN, depth \in {0, 1}, asm \in {"no", "inside", "end"},
                 access \in Accesses}
SmallNests ==
  LET scopes == {SmallScope(kind, braced, access) : kind \in Kinds, braced \in BOOLEAN, access \in Accesses}
      hidden == {SmallScope(kind, TRUE, "none") : kind \in Hidden}
  IN {<<>>} \cup {<<scope>> : scope \in scopes \cup hidden}
       \cup {<<scope, within>> : scope \in scopes, within \in hidden}
SmallTexts == {t \in [stack : SmallStacks, nest : SmallNests] : Matches(t.stack, t.nest)}

Assembly(scopes) == \E scope \in ToSet(scopes) : scope.kind = "asm"

(* On a small text, what a line shows to Update and what it means agree,   *)
(* it ends no scope around the text, and if it ends the block of the text  *)
(* nothing is open behind it.                                              *)
MeansWhatItShows(line, t) ==
  LET read == Reading(Declarations(CountParentheses(t.stack, line), line, 2), line, 2)
      done == Doing(t.nest, line, 2)
      s == read[Len(line.tokens)]
      scopes == done[Len(line.means)]
  IN /\ Matches(s, scopes)
     /\ \A k \in 1..Len(line.tokens) : line.tokens[k] = "}" => read[k - 1] # <<>>
     /\ \A k \in 1..Len(line.means) : line.means[k].do \notin {"open", "head"} => done[k - 1] # <<>>
     /\ BlocksOf(t.nest) # <<>> /\ BlocksOf(scopes) = <<>> => scopes = <<>>
     /\ s # <<>> /\ Last(s).inline_asm = "end" <=> Assembly(t.nest) /\ ~Assembly(scopes)

IsLine(line) ==
  /\ line.ns \in Seq(BOOLEAN) /\ Len(line.tokens) \in Nat /\ Len(line.means) \in Nat
  /\ \A k \in 1..Len(line.means) : line.means[k].do \in {"open", "head", "brace", "close", "label"}

ASSUME LinesMean ==
  /\ \A x \in DOMAIN Source : IsLine(Source[x])
  /\ \A t \in SmallTexts : \A x \in DOMAIN Source :
       Innermost(t.nest) \in Source[x].where \/ Source[x].pp # "none" => MeansWhatItShows(Source[x], t)

InNamespace(scopes) == scopes # <<>> /\ Last(scopes).kind = "namespace"
Inside(inner, outer) == inner # <<>> /\ Front(inner) = outer

(* A class, struct or namespace begins directly in a namespace, or ends *)
BeginsItem(outer, inner) == Inside(inner, outer) /\ InNamespace(outer) /\ ChecksIndentation(Last(inner))
EndsItem(inner, outer) == Inside(inner, outer) /\ ChecksIndentation(Last(inner))

(* What the checks of the layout see of it is what it means, too: a block  *)
(* begins in the one of the text, or that block ends.  A class ends with   *)
(* the brace in front of the line, the comment behind one is about the     *)
(* namespace of the text, and a macro is one line and the next.            *)
LooksAsItMeans(line, t) ==
  LET read == ReadLine(t.stack, line, 2)
      scopes == DoLine(t.nest, line, 2)
      ends == {block \in read.ended : block.starting_linenum = 1 /\ ChecksIndentation(block)}
  IN /\ OnNamespace(read.stack) /\ IsBelow(t.stack, read.stack) <=> BeginsItem(t.nest, scopes)
     /\ {block.kind : block \in ends} = IF EndsItem(t.nest, scopes) THEN {Last(t.nest).kind} ELSE {}
     /\ (\E block \in ends : IsClass(block)) => line.tokens # <<>> /\ Head(line.tokens) = "}"
     /\ (\E block \in read.ended \ ends : block.kind = "namespace") => line.closes = "none"
     /\ line.macro = "define" <=> Innermost(scopes) = "macro"
     /\ line.forward => Within(scopes) \in {"none", "macro"}

(* A directive is nothing else, and in no macro *)
IsDirective(line) ==
  /\ line.ns = <<>> /\ line.cls = "none" /\ line.access = "none" /\ line.tokens = <<>> /\ line.means = <<>>
  /\ ~line.forward /\ line.macro = "no" /\ "macro" \notin line.where

ASSUME LinesLook ==
  /\ \A x \in DOMAIN Source : Source[x].pp # "none" => IsDirective(Source[x])
  /\ \A t \in SmallTexts : \A x \in DOMAIN Source :
       Source[x].pp = "none" /\ Innermost(t.nest) \in Source[x].where => LooksAsItMeans(Source[x], t)

-----------------------------------------------------------------------------
(* The texts *)

ASSUME AlphabetsAssumption == \A a \in Alphabets : a.lines \subseteq DOMAIN Source

(* A text is made of the lines of one alphabet, which bounds its length *)
NextLines ==
  UNION {a.lines : a \in {b \in Alphabets : Len(text) < b.length /\ ToSet(text) \subseteq b.lines}}

NoItem == [name |-> <<>>]
SourceInit == Init /\ nest = <<>> /\ before = <<>> /\ item = NoItem

WriteLine ==
  /\ ~completed /\ item = NoItem
  /\ \E open \in {OpenIfs(text) # {}} : \E line \in NextLines :
       /\ Innermost(nest) \in Source[line].where
       /\ Source[line].pp \in {"else", "endif"} => open
       /\ Update(line)
  /\ before' = nest
  /\ nest' = NestOfNext(text')
  /\ UNCHANGED item

EndOfText == item = NoItem /\ CheckCompletedBlocks /\ UNCHANGED <<nest, before, item>>

(* A declaration behind the heads of its scopes.  Every brace of a head is *)
(* on its line, and no line of a declaration opens a block before its last *)
(* one: the stack in front of each line is that of the scope.              *)
WriteDeclaration ==
  /\ ~completed /\ item = NoItem
  /\ ToSet(text) \subseteq DOMAIN HeadTokens /\ Len(text) <= MaxScopes
  /\ \E family \in Families :
       /\ Innermost(nest) \in family.where
       /\ item' \in family.declarations
  /\ UNCHANGED <<vars, nest, before>>

SourceNext == WriteLine \/ EndOfText \/ WriteDeclaration
SourceSpec == SourceInit /\ [][SourceNext]_<<vars, nest, before, item>>

-----------------------------------------------------------------------------
(* Properties *)

InParams == Innermost(nest) = "params"

(* The stack of the linter is the nesting of the text, at the end of every *)
(* line but one inside the parameters of a function head, where the struct *)
(* of its result may still look like a declaration: kinds, braces, access  *)
(* and the lines where the blocks start, of the first branch of every      *)
(* conditional that is over (the assumptions of UpdatePreprocessor) and    *)
(* the current branch of one that is not.  At the end of the file exactly  *)
(* the classes and namespaces that are open in the text are reported: text *)
(* that closes what it opens is never told that a declaration is not       *)
(* complete.                                                               *)
Tracks ==
  InParams \/ \E blocks \in {BlocksOf(nest)} :
    /\ Len(stack) = Len(blocks)
    /\ \A i \in 1..Len(stack) : IsBlock(stack[i], blocks[i])
    /\ completed =>
         reports = {scope.line : scope \in {x \in ToSet(nest) : IsClass(x) \/ x.kind = "namespace"}}

(* The checks of a line are skipped as assembly exactly from the line that *)
(* opens an asm statement to the one that ends it.                         *)
AsmLinesSkipped ==
  text # <<>> /\ Source[Last(text)].pp = "none" =>
    (InAsmBlock <=> Assembly(nest) \/ (Assembly(before) /\ Innermost(nest) # "asm"))

LayoutErrorOn(check, n) == [check |-> check, line |-> n] \in layout
LayoutError(check) == LayoutErrorOn(check, Len(text))

(* The line that was read, no directive, ends the innermost scope *)
Ended(inner, outer) == Source[Last(text)].pp = "none" /\ Inside(inner, outer)

(* The DISALLOW macros of a scope that ended on the last line *)
Disallows(scope) ==
  {i \in (scope.line + 1)..(Len(text) - 1) : Source[text[i]].disallow = Source[text[scope.line]].name}

(* Whatever conditionals are around it, a line is told not to be indented  *)
(* in a namespace exactly if it is indented and declares a class there     *)
(* without a body, or else begins a class, a struct or a namespace         *)
(* directly there, and is in no macro; and the end of a class is told to   *)
(* be aligned exactly if it is indented unlike the line where that very    *)
(* class starts (CheckForNamespaceIndentation, _ClassInfo.CheckEnd).  The  *)
(* last DISALLOW macro of that class is told not to be the last thing in   *)
(* it exactly if code or a directive follows, of whatever branch; and the  *)
(* end of a namespace to need a comment exactly if its comment names       *)
(* another one or it has none and at least ten lines                       *)
(* (_NamespaceInfo.CheckEnd).                                              *)
LayoutReported ==
  text # <<>> =>
    \E line \in {Source[Last(text)]} :
      /\ LayoutError("namespace item") <=>
           /\ line.pp = "none" /\ line.indent > 0
           /\ "macro" \notin {Innermost(before), Innermost(nest)}
           /\ IF line.forward THEN InNamespace(nest) ELSE BeginsItem(before, nest)
      /\ LayoutError("class end") <=>
           /\ Ended(before, nest) /\ IsClass(Last(before))
           /\ line.indent # Source[text[Last(before).line]].indent
      /\ LayoutError("namespace end") <=>
           /\ Ended(before, nest) /\ Last(before).kind = "namespace"
           /\ line.closes # Source[text[Last(before).line]].name
           /\ line.closes = "none" => Distance(text, Last(before).line, Len(text)) >= 10
      /\ Ended(before, nest) /\ IsClass(Last(before)) =>
           \A i \in Disallows(Last(before)) :
             (\A j \in Disallows(Last(before)) : j <= i) =>
               (LayoutErrorOn("disallow", i) <=> \E j \in (i + 1)..(Len(text) - 1) : Source[text[j]].code = "code")
===============================================================================
