--------------------------- MODULE MCCloseExpression ---------------------------
(***************************************************************************)
(* Instances of CloseExpression: all texts over three sets of characters,  *)
(* of a length that differs with the set.  CheckCheck, which takes the     *)
(* condition of a macro from the brackets CloseExpression finds, reads     *)
(* statements with macros.                                                 *)
(***************************************************************************)
EXTENDS CloseExpression, SequencesExt

CONSTANT Literals

VARIABLE statement \* the statement that was written instead of a text

Checks == INSTANCE CheckTexts

MCBefore == { <<>>, <<"a">>, <<"<">>, <<"operator">>, <<"operator", "blank">> }
MCLiterals == {"1"}

Over(chars, length) == Len(text) - start < length /\ ToSet(text) \subseteq chars

SmallTexts ==
  \/ Over({"(", ")", "[", "]", "<", ">", ";", "newline", "a"}, 6)
  \/ Over({"(", ")", "{", "}", "<", ">"}, 7)
  \/ Over({"(", ")", "<", ">", "-", "=", "blank", "operator"}, 5)

NoStatement == [macro |-> "none"]
WriteText == statement = NoStatement /\ Next /\ UNCHANGED statement
WriteStatement ==
  /\ statement = NoStatement /\ text = <<>>
  /\ statement' \in Checks!CheckStatements
  /\ UNCHANGED vars

MCInit == Init /\ statement = NoStatement
MCNext == WriteText \/ WriteStatement
MCSpec == MCInit /\ [][MCNext]_<<vars, statement>>

-----------------------------------------------------------------------------
(* Properties *)

(* The macro that CheckCheck suggests passes with both sides of the        *)
(* comparison exactly when the condition that is written does, unless an   *)
(* operator binds less than the comparison or another one follows a        *)
(* literal and the first; and it does suggest one if a comparison with a   *)
(* literal is the whole condition and nothing is logged with it, unless    *)
(* its right side has a logical operator in parentheses.                   *)
SuggestionsKeepMeaning ==
  statement # NoStatement =>
    LET condition == statement.condition
        suggestion == Checks!CheckCheck(Checks!StatementLines(statement), 1)
    IN IF suggestion = Checks!NoSuggestion
       THEN Checks!Replaceable(condition) /\ statement.rest = <<";">> => Checks!LogicalRight(condition)
       ELSE /\ statement.rest = <<";">>
            /\ Checks!Misread(condition) \/ Checks!KeepsMeaning(statement, suggestion)
===============================================================================
