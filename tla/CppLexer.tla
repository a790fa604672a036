-------------------------------- MODULE CppLexer --------------------------------
(***************************************************************************)
(* What C++ says of the lines of a file: which of their atoms are code,    *)
(* which belong to comments and literals.  This is what the cleansing of   *)
(* cpplint.py is compared with; no definition of it comes from there.      *)
(***************************************************************************)
EXTENDS Integers, Sequences, FiniteSets, FiniteSetsExt

DQ == "\""
SQ == "'"
EscapedQuote == "\\\""
EscapedBackslash == "\\\\"
Escapes == {EscapedQuote, EscapedBackslash}
Word == {"a", "0", "R"}
CommentMark == {"//", "/*", "*/"}

-----------------------------------------------------------------------------
(* Finding and counting in a line *)

Positions(s, set) == {i \in 1..Len(s) : s[i] \in set}
Before(s, i) == SubSeq(s, 1, i - 1)
After(s, i) == SubSeq(s, i + 1, Len(s))
Count(s, x) == Cardinality(Positions(s, {x}))

Occurrences(s, part) ==
  {i \in 1..(Len(s) - Len(part) + 1) : SubSeq(s, i, i + Len(part) - 1) = part}

-----------------------------------------------------------------------------
(* The tokens of a file, line by line.  A state has                        *)
(*   open    <<>>, or what ends the comment or raw string that is open     *)
(*   whole   whether that comment began its line                           *)
(*   from    where the last literal of the line ended, or 1                *)
(*   elided  the lines with empty literals                                 *)
(*   lines   the lines with their literals                                 *)
(*   goesOn  a string, or a comment that did not begin its line, went on   *)
(*           behind the end of the line, or a comment behind that of the   *)
(*           file                                                          *)
(*   mark    a literal has a mark of a block comment, or of a line comment *)
(*           with such a comment behind it                                 *)
(*   odd     the file is not C++, or it is one of the oddities below       *)

(* R and a quote that are no end of a name, a delimiter and a parenthesis  *)
RawLiteral(s, i) ==
  {j \in (i + 2)..Len(s) :
     /\ s[i] = "R" /\ s[i + 1] = DQ /\ s[j] = "("
     /\ i > 1 => s[i - 1] \notin Word
     /\ \A k \in (i + 2)..(j - 1) : s[k] \notin {"(", ")"} \cup Escapes \cup CommentMark}

(* The word that ends at i - 1, and began at from or later, is a number *)
InNumber(s, from, i) ==
  \E j \in from..(i - 1) :
    /\ s[j] = "0" /\ (j > 1 => s[j - 1] \notin Word)
    /\ \A k \in j..(i - 1) : s[k] \in Word \/ (s[k] = SQ /\ s[k - 1] \in Word /\ s[k + 1] \in Word)

Add(st, elided, kept) ==
  LET n == Len(st.lines)
  IN [st EXCEPT !.elided[n] = @ \o elided, !.lines[n] = @ \o kept]

(* A literal between two quotes.  Odd: it seems to begin a raw string, or  *)
(* it is not one character between apostrophes.                            *)
Literal(st, s, i, j) ==
  LET text == SubSeq(s, i, j)
  IN [Add(st, <<s[i], s[i]>>, text) EXCEPT
        !.mark = @ \/ Positions(text, {"/*", "*/"}) # {},
        !.from = j + 1,
        !.odd = @ \/ (s[i] = SQ /\ (j # i + 2 \/ s[i + 1] \in CommentMark)) \/ \E k \in (i + 1)..(j - 1) : RawLiteral(s, k) # {}]

(* A comment.  Odd: it has a quote, or the mark of the other kind.         *)
Comment(st, text) ==
  [st EXCEPT !.odd = @ \/ Positions(text, {DQ, SQ, EscapedQuote, "//"}) # {}]

RECURSIVE Lex(_, _, _)
Lex(st, s, i) ==
  LET same == {j \in (i + 1)..Len(s) : s[j] = s[i]}
      ends == {j \in (i + 1)..Len(s) : s[j] = "*/"}
      raw == RawLiteral(s, i)
      closing == <<")">> \o SubSeq(s, i + 2, Min(raw) - 1) \o <<DQ>>
      closed == {j \in Occurrences(s, closing) : j > Min(raw)}
  IN CASE i > Len(s) -> st
       [] i <= Len(s) /\ s[i] = "//" -> [st EXCEPT !.mark = @ \/ Positions(Before(s, i), {"//"}) # {}]
       [] i <= Len(s) /\ s[i] = "/*" ->
            IF ends # {} THEN Lex(Comment(st, SubSeq(s, i, Min(ends))), s, Min(ends) + 1)
            ELSE [Comment(st, After(s, i)) EXCEPT
                    !.open = <<"*/">>, !.whole = (i = 1), !.goesOn = @ \/ i > 1]
       [] i <= Len(s) /\ s[i] = DQ ->
            IF same # {} THEN Lex(Literal(st, s, i, Min(same)), s, Min(same) + 1)
            ELSE [st EXCEPT !.goesOn = TRUE]
       [] i <= Len(s) /\ s[i] = SQ ->
            IF InNumber(s, st.from, i) /\ i < Len(s) /\ s[i + 1] \in Word THEN Lex(Add(st, <<>>, <<SQ>>), s, i + 1)
            ELSE IF same # {} THEN Lex(Literal(st, s, i, Min(same)), s, Min(same) + 1)
            ELSE [st EXCEPT !.odd = TRUE]
       [] i <= Len(s) /\ s[i] = "R" /\ raw # {} ->
            IF closed # {}
            THEN Lex(Add(st, <<DQ, DQ>>, <<DQ, DQ>>), s, Min(closed) + Len(closing))
            ELSE [Add(st, <<DQ, DQ>>, <<DQ, DQ>>) EXCEPT !.open = closing]
       [] i <= Len(s) /\ s[i] \in Escapes \cup {"*/"} -> [st EXCEPT !.odd = TRUE]
       [] OTHER -> Lex(Add(st, <<s[i]>>, <<s[i]>>), s, i + 1)

(* The next line.  Odd: there is code behind a comment that began a line,  *)
(* or a line of a raw string begins with a comment mark.                   *)
LexLine(state, s) ==
  LET st == [state EXCEPT !.from = 1, !.elided = Append(@, <<>>), !.lines = Append(@, <<>>)]
      ends == Occurrences(s, st.open)
      next == Min(ends) + Len(st.open)
      on == [st EXCEPT !.open = <<>>]
  IN CASE st.open = <<>> -> Lex(st, s, 1)
       [] st.open = <<"*/">> ->
            IF ends = {} THEN Comment(st, s)
            ELSE Lex([Comment(on, Before(s, Min(ends))) EXCEPT
                        !.odd = @ \/ (st.whole /\ next <= Len(s))], s, next)
       [] OTHER ->
            LET quoted == [(IF ends = {} THEN st ELSE on) EXCEPT
                             !.elided[Len(st.lines)] = <<DQ, DQ>>, !.lines[Len(st.lines)] = <<DQ, DQ>>,
                             !.odd = @ \/ (s # <<>> /\ s[1] = "/*")]
            IN IF ends = {} THEN quoted ELSE Lex(quoted, s, next)

RECURSIVE Tokens(_)
Tokens(file) ==
  IF file = <<>>
  THEN [open |-> <<>>, whole |-> FALSE, from |-> 1, elided |-> <<>>, lines |-> <<>>,
        goesOn |-> FALSE, mark |-> FALSE, odd |-> FALSE]
  ELSE LexLine(Tokens(SubSeq(file, 1, Len(file) - 1)), file[Len(file)])
===============================================================================
