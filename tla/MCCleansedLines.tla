---------------------------- MODULE MCCleansedLines ----------------------------
(***************************************************************************)
(* Instance of CleansedLines.                                              *)
(***************************************************************************)
EXTENDS CleansedLines

Comments == {<<"a">>, <<DQ>>, <<"//">>, <<"/*">>, <<"*/">>}
RawTexts == {<<"a">>, <<"R", DQ, "(">>, <<")", DQ>>, <<DQ>>, <<"//">>, <<"/*">>}
Literals == {<<"a">>, <<"0">>, <<DQ>>, <<SQ>>, <<EscapedQuote>>, <<"//">>}
Delimiters == {<<"a">>, <<"R", DQ, "(">>, <<")", DQ>>, <<"R", DQ, "a", "(">>, <<")", "a", DQ>>}
MCTexts == {Comments, RawTexts, Literals, Delimiters}
===============================================================================
