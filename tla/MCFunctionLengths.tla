--------------------------- MODULE MCFunctionLengths ---------------------------
(***************************************************************************)
(* Instances of FunctionLengths: heads of functions of both kinds with     *)
(* their brace, without it and as declarations, opening and closing braces *)
(* on lines of their own, and bodies around the triggers of both kinds.    *)
(***************************************************************************)
EXTENDS FunctionLengths

Plain(holds, times) == [starts |-> "no", holds |-> holds, closes |-> FALSE, times |-> times]
Heading(starts, holds) == [starts |-> starts, holds |-> holds, closes |-> FALSE, times |-> 1]
Closing == [starts |-> "no", holds |-> "end", closes |-> TRUE, times |-> 1]

MCLines ==
  {Heading("plain", "brace"), Heading("test", "brace"), Heading("plain", "neither"),
   Heading("plain", "end"), Closing, Plain("brace", 1), Plain("neither", 0),
   Plain("end", 250), Plain("end", 401), Plain("neither", 7750)}
===============================================================================
