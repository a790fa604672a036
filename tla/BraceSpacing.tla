------------------------------ MODULE BraceSpacing ------------------------------
(***************************************************************************)
(* CheckBracesSpacing: a brace with no blank in front of it, "{!" here, is *)
(* told to need one unless it looks like that of an initialization: by     *)
(* what follows its end, or because a type is in front.  Whether a word is *)
(* a type is looked up in the templates around the blocks of NestingState. *)
(***************************************************************************)
EXTENDS NestingState, TokenLines

Native == {"int", "size_t"}
Introduces(line, word) ==
  \E i \in 1..(Len(line) - 1) : line[i] \in {"typename", "class", "struct"} /\ line[i + 1] = word

(* The last template between the start of a block and that of the block    *)
(* around it, 0 for none                                                   *)
LastTemplate(lines, s, b) ==
  LET next_block_start == IF b = 1 THEN 1 ELSE s[b - 1].starting_linenum
      templates == {i \in next_block_start..s[b].starting_linenum : Has(lines[i], "template")}
  IN IF templates = {} THEN 0 ELSE Max(templates)

(* Mutant: only the innermost block is looked at *)
IsTypeOfTop(lines, s, word) ==
  \/ word \in Native
  \/ /\ s # <<>> /\ Last(s).kind # "namespace" /\ LastTemplate(lines, s, Len(s)) > 0
     /\ \E i \in LastTemplate(lines, s, Len(s))..Last(s).starting_linenum : Introduces(lines[i], word)

_IsType(lines, s, word) ==
  \/ word \in Native
  \/ \E b \in DOMAIN s :
       /\ \A c \in b..Len(s) : s[c].kind # "namespace"
       /\ LastTemplate(lines, s, b) > 0
       /\ \E i \in LastTemplate(lines, s, b)..s[b].starting_linenum : Introduces(lines[i], word)

(* The place of the last brace that is looked at, 0 for none *)
TightBrace(line) ==
  SelectLastInSeq([k \in DOMAIN line |-> IF k = 1 THEN <<"(", line[k]>> ELSE SubSeq(line, k - 1, k)],
                  LAMBDA pair : pair[2] = "{!" /\ pair[1] \notin {"(", "{", "{!", ">"})

(* What is behind the end of the brace at k, up to two lines more *)
TrailingText(lines, n, k) ==
  LET places == SelectSeq(Places(lines), LAMBDA p : p.line > n \/ (p.line = n /\ p.at >= k))
      close == Mate([i \in DOMAIN places |-> IF places[i].token = "{!" THEN [places[i] EXCEPT !.token = "{"]
                                             ELSE places[i]], "{", "}")
  IN IF close = NoPlace THEN <<>>
     ELSE Behind(lines[close.line], close.at)
            \o FlattenSeq(SubSeq(lines, close.line + 1, Min({close.line + 2, Len(lines)})))

LooksLikeInitialization(trailing_text) ==
  LET first == SelectInSeq(trailing_text, LAMBDA token : token # "}")
  IN first > 0 /\ trailing_text[first] \in {"{", "{!", ".", ";", ",", ")", "<", "<<", ">", "]", ":", "::"}

(* Whether the brace of line n, read with the stack s, needs a blank *)
CheckBracesSpacing(lines, n, s) ==
  LET k == TightBrace(lines[n])
  IN /\ k > 0
     /\ ~LooksLikeInitialization(TrailingText(lines, n, k))
     /\ ~_IsType(lines, s, lines[n][k - 1])
=================================================================================
