----------------------------- MODULE CleansedLines -----------------------------
(***************************************************************************)
(* What is done to the lines of a file before they are checked: comments   *)
(* of whole lines are blanked (RemoveMultiLineComments), raw strings,      *)
(* strings and comments are taken out (CleansedLines), and what could not  *)
(* be taken out is reported (CheckForMultilineCommentsAndStrings).         *)
(*                                                                         *)
(* A line is a sequence of atoms: a letter, a digit, the R of a raw        *)
(* string, parentheses, quotes, an escaped quote and an escaped backslash  *)
(* (one atom each), and comment marks, with blanks on both sides.  Other   *)
(* blanks, escapes and prefixes of R, lines continued with a backslash and *)
(* #include lines are left out.                                            *)
(***************************************************************************)
EXTENDS CppLexer

CONSTANTS
  Texts,   \* the sets of words a file may be made of
  MaxWords \* bound on its length

VARIABLES
  phase,     \* "write", "comments", "raw", "cleanse", "check", "done"
  words,     \* the set the file is written with
  size,      \* its words and line ends so far
  file,      \* history: its lines as they were written
  lines,     \* lines of ProcessFileData, raw_lines of CleansedLines
  lineix,    \* the line that is next
  delimiter, \* delimiter of CleanseRawStrings, None as <<>>
  clean,     \* [lines_without_raw_strings, lines, elided] of CleansedLines
  errors     \* what was reported, and on which line

vars == <<phase, words, size, file, lines, lineix, delimiter, clean, errors>>

Init ==
  /\ phase = "write"
  /\ words \in Texts
  /\ size = 0
  /\ file = << <<>> >>
  /\ lines = <<>>
  /\ lineix = 1
  /\ delimiter = <<>>
  /\ clean = [lines_without_raw_strings |-> <<>>, lines |-> <<>>, elided |-> <<>>]
  /\ errors = {}

-----------------------------------------------------------------------------
(* RemoveMultiLineComments *)

(* Mutant: a comment that ends on its line is one *)
AnyCommentStart(from) == {l \in from..Len(lines) : lines[l] # <<>> /\ lines[l][1] = "/*"}

FindNextMultiLineCommentStart(from) ==
  {l \in from..Len(lines) : lines[l] # <<>> /\ lines[l][1] = "/*" /\ Count(lines[l], "*/") = 0}

FindNextMultiLineCommentEnd(from) ==
  {l \in from..Len(lines) : lines[l] # <<>> /\ lines[l][Len(lines[l])] = "*/"}

RemoveMultiLineCommentsFromRange(begin, end) ==
  [l \in DOMAIN lines |-> IF l \in begin..end THEN <<"/*", "*/">> ELSE lines[l]]

RemoveMultiLineComments ==
  /\ phase = "comments"
  /\ LET starts == FindNextMultiLineCommentStart(lineix)
         begin == Min(starts)
         ends == FindNextMultiLineCommentEnd(begin)
     IN IF starts # {} /\ ends # {}
        THEN /\ lines' = RemoveMultiLineCommentsFromRange(begin, Min(ends))
             /\ lineix' = Min(ends) + 1
             /\ UNCHANGED <<phase, errors>>
        ELSE /\ errors' = IF starts = {} THEN errors
                          ELSE errors \cup {<<"readability/multiline_comment", begin + 1>>}
             /\ lineix' = 1
             /\ phase' = "raw"
             /\ UNCHANGED lines
  /\ UNCHANGED <<words, size, file, delimiter, clean>>

-----------------------------------------------------------------------------
(* CleanseRawStrings *)

(* An R", not the end of a name, some more and a parenthesis at i *)
RawOpens(s, i) ==
  /\ i + 2 <= Len(s) /\ s[i] = "R" /\ s[i + 1] = DQ
  /\ i > 1 => s[i - 1] \notin Word
  /\ \E j \in (i + 2)..Len(s) :
       /\ s[j] = "("
       /\ \A k \in (i + 2)..(j - 1) :
            s[k] \notin {"(", ")", EscapedQuote, EscapedBackslash} \cup CommentMark

RawParenthesis(s, i) == Min({j \in (i + 2)..Len(s) : s[j] = "("})

(* The states in which the pattern for a line comment can be after s:      *)
(* outside, inside a quoted string of either kind, or matched              *)
RECURSIVE CommentPattern(_)
CommentPattern(s) ==
  IF s = <<>> THEN {"outside"}
  ELSE LET states == CommentPattern(Before(s, Len(s)))
           x == s[Len(s)]
           Step(q) ==
             CASE q = "matched" -> {"matched"}
               [] q = "outside" -> IF x = "//" THEN {"outside", "matched"}
                                   ELSE IF x = SQ THEN {SQ}
                                   ELSE IF x \in {DQ, EscapedQuote} THEN {DQ} ELSE {"outside"}
               [] q = SQ -> IF x = SQ THEN {"outside"} ELSE {SQ}
               [] q = DQ -> IF x = DQ THEN {"outside"}
                            ELSE IF x = EscapedQuote THEN {DQ, "outside"} ELSE {DQ}
       IN UNION {Step(q) : q \in states}

(* Mutant: no look at what is in front of a raw string *)
NeverComment(s) == FALSE
InLineComment(s) == "matched" \in CommentPattern(s)

(* The loop over the raw strings of a line: the line, and the delimiter    *)
(* if the last one does not end                                            *)
RECURSIVE RawStrings(_)
RawStrings(s) ==
  LET opens == {i \in 1..Len(s) : RawOpens(s, i)}
      i == Min(opens)
      j == RawParenthesis(s, i)
      until == <<")">> \o SubSeq(s, i + 2, j - 1) \o <<DQ>>
      rest == After(s, j)
      ends == Occurrences(rest, until)
  IN IF opens = {} \/ InLineComment(Before(s, i)) THEN [line |-> s, delimiter |-> <<>>]
     ELSE IF ends = {} THEN [line |-> Before(s, i) \o <<DQ, DQ>>, delimiter |-> until]
     ELSE RawStrings(Before(s, i) \o <<DQ, DQ>> \o After(rest, Min(ends) + Len(until) - 1))

CleanseRawStrings ==
  /\ phase = "raw"
  /\ lineix <= Len(lines)
  /\ LET s == lines[lineix]
         ends == Occurrences(s, delimiter)
         r == IF delimiter = <<>> THEN RawStrings(s)
              ELSE IF ends = {} THEN [line |-> <<DQ, DQ>>, delimiter |-> delimiter]
              ELSE RawStrings(<<DQ, DQ>> \o After(s, Min(ends) + Len(delimiter) - 1))
     IN /\ clean' = [clean EXCEPT !.lines_without_raw_strings = Append(@, r.line)]
        /\ delimiter' = r.delimiter
  /\ lineix' = lineix + 1
  /\ UNCHANGED <<phase, words, size, file, lines, errors>>

-----------------------------------------------------------------------------
(* CleanseComments and _CollapseStrings *)

(* Occurrences of a quote in apostrophes, counted from the left *)
RECURSIVE QuotedQuotes(_)
QuotedQuotes(s) ==
  LET found == Occurrences(s, <<SQ, DQ, SQ>>)
  IN IF found = {} THEN 0 ELSE 1 + QuotedQuotes(After(s, Min(found) + 2))

IsCppString(s) == (Count(s, DQ) - QuotedQuotes(s)) % 2 = 1

(* _RE_PATTERN_CLEANSE_LINE_C_COMMENTS *)
RECURSIVE WithoutCComments(_)
WithoutCComments(s) ==
  LET i == Min(Positions(s, {"/*"}))
      ends == {j \in Positions(s, {"*/"}) : j > i}
  IN IF Positions(s, {"/*"}) = {} \/ ends = {} THEN s
     ELSE Before(s, i) \o WithoutCComments(After(s, Min(ends)))

CleanseComments(s) ==
  LET marks == Positions(s, {"//"})
  IN WithoutCComments(IF marks # {} /\ ~IsCppString(Before(s, Min(marks)))
                      THEN Before(s, Min(marks)) ELSE s)

(* The end of s is a number whose first digit is not inside a name *)
EndsInNumber(s) ==
  \E i \in 1..Len(s) :
    /\ s[i] = "0" /\ (i > 1 => s[i - 1] \notin Word)
    /\ \A k \in i..Len(s) : s[k] \in {"a", "0"}

(* How far letters and digits go, each with an apostrophe in front or not *)
RECURSIVE Digits(_, _)
Digits(s, i) ==
  IF i <= Len(s) /\ s[i] \in Word THEN Digits(s, i + 1)
  ELSE IF i < Len(s) /\ s[i] = SQ /\ s[i + 1] \in Word THEN Digits(s, i + 2)
  ELSE i - 1

Without(s, set) == SelectSeq(s, LAMBDA x : x \notin set)

RECURSIVE Collapse(_)
Collapse(s) ==
  LET quotes == Positions(s, {DQ, SQ})
      i == Min(quotes)
      number == Digits(s, i)
      second == {j \in (i + 1)..Len(s) : s[j] = s[i]}
  IN IF quotes = {} THEN s
     ELSE IF s[i] = SQ /\ EndsInNumber(Before(s, i))
     THEN Before(s, i) \o Without(SubSeq(s, i, number), {SQ}) \o Collapse(After(s, number))
     ELSE IF second = {} THEN s
     ELSE Before(s, i) \o <<s[i], s[i]>> \o Collapse(After(s, Min(second)))

CollapseStrings(s) == Collapse(Without(s, Escapes))

CleanseLine ==
  /\ phase = "cleanse"
  /\ lineix <= Len(lines)
  /\ LET s == clean.lines_without_raw_strings[lineix]
     IN clean' = [clean EXCEPT !.lines = Append(@, CleanseComments(s)),
                               !.elided = Append(@, CleanseComments(CollapseStrings(s)))]
  /\ lineix' = lineix + 1
  /\ UNCHANGED <<phase, words, size, file, lines, delimiter, errors>>

-----------------------------------------------------------------------------
(* CheckForMultilineCommentsAndStrings *)

CommentGoesOn(s) == Count(s, "/*") > Count(s, "*/")

CheckLine ==
  /\ phase = "check"
  /\ lineix <= Len(lines)
  /\ LET s == clean.elided[lineix]
     IN errors' = errors
          \cup (IF CommentGoesOn(s) THEN {<<"readability/multiline_comment", lineix>>} ELSE {})
          \cup (IF Count(s, DQ) % 2 = 1 THEN {<<"readability/multiline_string", lineix>>} ELSE {})
  /\ lineix' = lineix + 1
  /\ UNCHANGED <<phase, words, size, file, lines, delimiter, clean>>

(* The end of one of the loops over the lines *)
NextLoop ==
  /\ phase \in {"raw", "cleanse", "check"}
  /\ lineix > Len(lines)
  /\ phase' = CASE phase = "raw" -> "cleanse" [] phase = "cleanse" -> "check" [] phase = "check" -> "done"
  /\ lineix' = 1
  /\ UNCHANGED <<words, size, file, lines, delimiter, clean, errors>>

-----------------------------------------------------------------------------
(* The file that is linted *)

Write ==
  /\ phase = "write"
  /\ size < MaxWords
  /\ size' = size + 1
  /\ \/ \E w \in words : file' = [file EXCEPT ![Len(file)] = @ \o w]
     \/ file' = Append(file, <<>>)
  /\ UNCHANGED <<phase, words, lines, lineix, delimiter, clean, errors>>

ProcessFile ==
  /\ phase = "write"
  /\ phase' = "comments"
  /\ lines' = file
  /\ UNCHANGED <<words, size, file, lineix, delimiter, clean, errors>>

Linter == RemoveMultiLineComments \/ CleanseRawStrings \/ CleanseLine \/ CheckLine \/ NextLoop

Next == Write \/ ProcessFile \/ Linter

Spec == Init /\ [][Next]_vars

-----------------------------------------------------------------------------
(* Properties *)

Real == Tokens(file)
Tidy == ~Real.odd /\ Real.open \in {<<>>, <<"*/">>}

(* In a file without oddities that is not reported, what the checks see of *)
(* a line is its code: every string and character literal is empty, every  *)
(* comment is gone, and nothing else is (CleansedLines, elided).  The same *)
(* lines have their literals where a check wants them, if none has a mark  *)
(* of a block comment, or of a line comment in front of a comment (lines). *)
ElidedIsTheCode ==
  phase = "done" /\ errors = {} /\ Tidy =>
    /\ clean.elided = Real.elided
    /\ ~Real.mark => clean.lines = Real.lines

(* A file without oddities is reported exactly if a string does not end on *)
(* its line, or a comment behind code does not, or a comment never does    *)
(* (RemoveMultiLineComments, CheckForMultilineCommentsAndStrings).         *)
ReportedIfItGoesOn ==
  phase = "done" /\ Tidy => (errors # {} <=> Real.goesOn \/ Real.open # <<>>)
===============================================================================
