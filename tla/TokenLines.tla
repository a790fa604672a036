------------------------------- MODULE TokenLines -------------------------------
(***************************************************************************)
(* Lines as the sequences of their tokens, words and punctuation.  Two     *)
(* words have a blank between them, a name and its parenthesis have none.  *)
(* CloseExpression is the search for the mate of a bracket here: that is   *)
(* what CloseExpressionProofs proves of it for parentheses, and what the   *)
(* run of CloseExpression shows for angles and for the way back.           *)
(***************************************************************************)
EXTENDS Integers, SequencesExt

Punctuation == {"(", ")", ",", "&", "&&", "*", "=", ":", "::", "<", "<<", ">", "{", "}", ";", "\\"}
IsWord(token) == token \notin Punctuation

Count(line, tokens) == Cardinality({i \in DOMAIN line : line[i] \in tokens})
Behind(line, i) == SubSeq(line, i + 1, Len(line))
Ends(line, tokens) == line # <<>> /\ Last(line) \in tokens
Has(line, token) == token \in ToSet(line)

(* The tokens of a file with their places, and the mate of the bracket that *)
(* starts a sequence of them                                               *)
Places(lines) ==
  FlattenSeq([n \in 1..Len(lines) |->
    [k \in 1..Len(lines[n]) |-> [token |-> lines[n][k], line |-> n, at |-> k]]])
NoPlace == [token |-> "none", line |-> 0, at |-> 0]
Mate(places, open, close) ==
  FoldLeft(LAMBDA s, p :
             IF s.mate # NoPlace THEN s
             ELSE LET depth == CASE p.token = open  -> s.depth + 1
                                 [] p.token = close -> s.depth - 1
                                 [] OTHER           -> s.depth
                  IN [depth |-> depth, mate |-> IF depth = 0 THEN p ELSE NoPlace],
           [depth |-> 0, mate |-> NoPlace], places).mate

CloseParen(lines, n, k) ==
  Mate(SelectSeq(Places(lines), LAMBDA p : p.line > n \/ (p.line = n /\ p.at >= k)), "(", ")")
OpenAngle(lines, n, k) ==
  Mate(Reverse(SelectSeq(Places(lines), LAMBDA p : p.line < n \/ (p.line = n /\ p.at <= k))), ">", "<")
=================================================================================
