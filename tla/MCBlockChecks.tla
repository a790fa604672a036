----------------------------- MODULE MCBlockChecks -----------------------------
(***************************************************************************)
(* Instances of BlockChecks: lines with ifs, elses and loops, their        *)
(* conditions over one line or two, their bodies in braces or not.  Files  *)
(* that are no statements are followed up to two lines.                    *)
(***************************************************************************)
EXTENDS BlockChecks

L(indent, tokens) == [indent |-> indent, tokens |-> tokens, comment |-> FALSE]
Comment == [indent |-> 1, tokens |-> <<>>, comment |-> TRUE]
WithComment(line) == [line EXCEPT !.comment = TRUE]

IfX == <<"if", "(", "x", ")">>
Braced == L(0, IfX \o <<"{">>)
Close == L(0, <<"}">>)

(* Bodies that are empty, and semicolons *)
Empty ==
  {Braced, WithComment(Braced), L(0, IfX), L(0, <<"if", "(">>), L(0, <<"x", ")", "{">>),
   L(0, <<"{">>), Close, WithComment(Close), Comment, L(0, <<"}", "else", "{">>),
   L(0, <<"}", ";">>), L(0, IfX \o <<"{", "}">>), L(0, IfX \o <<";">>),
   L(1, <<"x", ";">>), L(0, <<"else", "{">>)}

(* One and several statements under an if or else, with indentations *)
Indented ==
  {L(0, IfX), L(1, IfX), L(0, <<"else">>), L(1, <<"else">>), L(0, <<"x", ";">>),
   L(1, <<"x", ";">>), L(2, <<"x", ";">>), L(1, <<"x", ";", "x", ";">>),
   L(0, <<"else">> \o IfX), L(0, IfX \o <<"x", ";">>), L(0, <<"else", "x", ";">>), Blank}

(* Braces on both sides of an else, and on one *)
Sides ==
  {Braced, L(0, IfX), L(1, <<"x", ";">>), L(0, <<"}", "else", "{">>), L(0, <<"}", "else">>),
   L(0, <<"else", "{">>), L(0, <<"else">>), L(0, <<"}", "else">> \o IfX \o <<"{">>),
   L(0, <<"else">> \o IfX \o <<"{">>), L(0, <<"}", "else">> \o IfX),
   L(0, <<"}", "else", "if", "(">>), L(1, <<"x", ")", "{">>), L(1, <<"x", ")">>), Close}

(* Blocks of loops, macros and of their own *)
Blocks ==
  {L(0, <<"for", "(", "x", ")", "{">>), L(0, <<"while", "(", "x", ")", ";">>),
   L(0, <<"M", "(", "x", ")", "{">>), L(0, <<"{">>), Close, L(0, <<"}", ";">>),
   L(0, <<"do", "{">>), L(0, <<"}", "while", "(", "x", ")", ";">>), L(0, <<"do", "x", ";">>),
   L(1, <<"x", ";">>), L(0, <<"M", "(">>), L(1, <<"x", ")", "{">>), L(0, <<"x", "{", "}", ";">>)}

MCTexts == [empty |-> Empty, indented |-> Indented, sides |-> Sides, blocks |-> Blocks]

(* The braces of the lines written so far can be closed by those to come *)
Count(tokens, token) == Cardinality({p \in 1..Len(tokens) : tokens[p] = token})
Depth(tokens) == Count(tokens, "{") - Count(tokens, "}")
CanBeClosed ==
  \E tokens \in {FlattenSeq([n \in 1..Len(lines) |-> TokensOf(n)])} :
    /\ \A p \in 1..Len(tokens) : tokens[p] = "}" => Depth(SubSeq(tokens, 1, p)) >= 0
    /\ Depth(tokens) <= MaxLines - Len(lines)

Followed ==
  \/ Len(lines) <= 2
  \/ check = "write" /\ CanBeClosed
  \/ check # "write" /\ (check = "CheckBraces" /\ linenum = 1 => WellFormed(lines))
===============================================================================
