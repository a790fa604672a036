---------------------------- MODULE MCIncludeState ----------------------------
(***************************************************************************)
(* Instances of IncludeState: files of up to MaxLines lines whose          *)
(* directives are balanced from the left, with a header of every kind.    *)
(***************************************************************************)
EXTENDS IncludeState

H(type, key) ==
  [type |-> type, key |-> key, third_party |-> FALSE, foreign_cc |-> FALSE, own |-> FALSE]

MCHeader ==
  [own    |-> [H("likely mine", 2) EXCEPT !.own = TRUE],
   like   |-> H("possibly mine", 4),
   stdio  |-> H("c system", 6),
   vector |-> H("c++ system", 7),
   base   |-> H("other", 1),
   Third  |-> [H("other", 8) EXCEPT !.third_party = TRUE, !.own = TRUE],
   impl   |-> [H("other", 9) EXCEPT !.foreign_cc = TRUE]]

MCEndings ==
  {[cc |-> cc, exists |-> exists, needs |-> needs, includes |-> {"stdio"}] :
     cc \in BOOLEAN, exists \in BOOLEAN, needs \in {{}, {"vector", "stdio"}}}
===============================================================================
