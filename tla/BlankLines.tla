------------------------------- MODULE BlankLines -------------------------------
(***************************************************************************)
(* The blank lines CheckSpacing finds redundant and CheckSectionSpacing    *)
(* misses.  "lines" are those of the file, read as far as the checks look  *)
(* ahead of line n, and a block is one of NestingState at the end of it.   *)
(***************************************************************************)
EXTENDS NestingState, TokenLines

LineAt(lines, n) == Source[lines[n]]
IsLabel(line) == line.access # "none" /\ line.cls = "none"

Braces(line) == SelectSeq(line.tokens, LAMBDA token : token \notin {";", ")"})
EndsInBrace(line) ==
  IF Braces(line) # <<>> THEN Last(Braces(line)) # "}" ELSE line.ns # <<>> /\ Last(line.ns)

(* Line n ends the head of a function that goes over several lines, by the *)
(* way it is indented                                                      *)
HeadEnds(lines, n) ==
  LET others == {m \in 1..n : LineAt(lines, m).part # "initializer"}
  IN IF LineAt(lines, n).part = "initializer"
     THEN others # {} /\ LineAt(lines, Max(others)).part = "initializers"
     ELSE LineAt(lines, n).part # "none"

CheckBlankLine(lines, n, block) ==
  LET next == LineAt(lines, n + 1)
  IN IF LineAt(lines, n).code # "blank" \/ block.kind \in {"namespace", "extern"} THEN {}
     ELSE {error \in {"start", "end", "label"} :
             CASE error = "start" -> n > 1 /\ EndsInBrace(LineAt(lines, n - 1)) /\ ~HeadEnds(lines, n - 1)
               [] error = "end"   -> /\ n < Len(lines) /\ next.tokens # <<>> /\ Head(next.tokens) = "}"
                                     /\ next.tokens # <<"}", "{">>
               [] error = "label" -> n > 1 /\ IsLabel(LineAt(lines, n - 1))}

-----------------------------------------------------------------------------
Opened(line) == Count(line.tokens, {"{", "extern {", "asm {"}) + Count(line.ns, {TRUE})
Closed(line) == Count(line.tokens, {"}"})

(* Mutant: the class ends with the first block in it *)
FirstEnd(lines, start) ==
  LET ends == {n \in start..Len(lines) : Closed(LineAt(lines, n)) > 0}
  IN IF ends = {} THEN 0 ELSE Min(ends)

(* last_line of the class that starts on a line: the first one behind      *)
(* which no more braces are open than closed, 0 if there is none           *)
LastLine(lines, start) ==
  LET Depth(n) == MapThenSumSet(LAMBDA i : Opened(LineAt(lines, i)) - Closed(LineAt(lines, i)), start..n)
      ends == {n \in start..Len(lines) : Depth(n) = 0}
  IN IF ends = {} THEN 0 ELSE Min(ends)

(* Whether the label of line n should have a blank line in front *)
CheckSectionSpacing(lines, n, class) ==
  LET start == class.starting_linenum
      last_line == LastLine(lines, start)
      prev == LineAt(lines, n - 1)
      heads == {i \in start..(n - 1) : EndsInBrace(LineAt(lines, i)) /\ LineAt(lines, i).access = "none"}
  IN /\ last_line # 0 /\ Distance(lines, start, last_line) > 24
     /\ n > start /\ IsLabel(LineAt(lines, n))
     /\ prev.code = "code" /\ prev.cls = "none" /\ ~prev.forward /\ prev.macro = "no"
     /\ (IF heads = {} THEN start ELSE Min(heads)) < n - 1
=================================================================================
