------------------------------- MODULE TextInside -------------------------------
(***************************************************************************)
(* _GetTextInside: from an opening bracket to the one that closes it, in a *)
(* text of one line or several.  It reads no angles: what is between the   *)
(* brackets is theirs.                                                     *)
(***************************************************************************)
EXTENDS Integers, SequencesExt

matching_punctuation == [c \in {"(", "[", "{"} |-> CASE c = "(" -> ")" [] c = "[" -> "]" [] OTHER -> "}"]
closing_punctuation == {")", "]", "}"}

Advance(s, stack) == [stack |-> stack, position |-> s.position + 1, failed |-> FALSE]
Push(s, c) == Advance(s, Append(s.stack, matching_punctuation[c]))

(* Mutant: any closing bracket closes the innermost one *)
PopAny(s, c) ==
  CASE c \in closing_punctuation -> Advance(s, Front(s.stack))
    [] c \in DOMAIN matching_punctuation -> Push(s, c)
    [] OTHER -> Advance(s, s.stack)

(* One turn of the loop over the text *)
ReadOn(s, c) ==
  CASE Last(s.stack) = c -> Advance(s, Front(s.stack))
    [] Last(s.stack) # c /\ c \in closing_punctuation -> [s EXCEPT !.failed = TRUE]
    [] c \in DOMAIN matching_punctuation -> Push(s, c)
    [] OTHER -> Advance(s, s.stack)

Turn(s, c) == IF s.failed \/ s.stack = <<>> THEN s ELSE ReadOn(s, c)

(* What is known after each character from the bracket at start on *)
Reading(text, start) ==
  LET After[n \in start..Len(text)] ==
        IF n = start
        THEN [stack |-> <<matching_punctuation[text[start]]>>, position |-> start, failed |-> FALSE]
        ELSE Turn(After[n - 1], text[n])
  IN After

(* The place of the closing bracket for the one at start, 0 for None *)
ClosingPosition(text, start) ==
  LET end == Reading(text, start)[Len(text)]
  IN IF end.failed \/ end.stack # <<>> THEN 0 ELSE end.position
=================================================================================
