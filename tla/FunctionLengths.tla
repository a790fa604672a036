---------------------------- MODULE FunctionLengths ----------------------------
(***************************************************************************)
(* CheckForFunctionLengths and _FunctionState: the linter counts the lines *)
(* of a function from the line where it believes one starts to the next    *)
(* closing brace in the first column, and reports it there if it is long.  *)
(*                                                                         *)
(* A line is what the check asks of it:                                    *)
(*   starts  "plain" or "test" if it begins like a function of that kind   *)
(*           and not like a macro, else "no"                               *)
(*   holds   "end" if it has a semicolon or a closing brace, else "brace"  *)
(*           if it has an opening one, else "neither"                      *)
(*   closes  it is a closing brace in the first column and nothing else    *)
(*   times   how many lines like it follow each other, 0 if it is blank    *)
(***************************************************************************)
EXTENDS Integers, Sequences, FiniteSetsExt

CONSTANTS
  Lines,       \* the lines a file may be made of
  Verbosities, \* what --verbose may be, "a number 0-5"
  MaxLines     \* bound on the length of a file

ASSUME VerbosityAssumption == Verbosities \subseteq 0..5
ASSUME LineAssumption ==
  Lines \subseteq [starts : {"no", "plain", "test"}, holds : {"end", "brace", "neither"},
                   closes : BOOLEAN, times : Nat]

VARIABLES
  verbose_level,     \* _VerboseLevel()
  lines,             \* the file
  linenum,           \* the line that is next
  in_a_function,     \* the members of _FunctionState
  lines_in_function,
  current_function,  \* "plain" or "test", the empty name as "no"
  reports            \* [check, line, level] for each call of error()

state == <<in_a_function, lines_in_function, current_function>>
vars == <<verbose_level, lines, linenum, state, reports>>

NORMAL_TRIGGER == 250
TEST_TRIGGER == 400

Init ==
  /\ verbose_level \in Verbosities
  /\ lines = <<>>
  /\ linenum = 0
  /\ in_a_function = FALSE
  /\ lines_in_function = 0
  /\ current_function = "no"
  /\ reports = {}

-----------------------------------------------------------------------------
(* _FunctionState *)

(* Mutant: the count goes on *)
BeginAgain(function_name) ==
  /\ in_a_function' = TRUE
  /\ lines_in_function' = lines_in_function
  /\ current_function' = function_name

Begin(function_name) ==
  /\ in_a_function' = TRUE
  /\ lines_in_function' = 0
  /\ current_function' = function_name

Count(times) ==
  /\ lines_in_function' = IF in_a_function THEN lines_in_function + times ELSE lines_in_function
  /\ UNCHANGED <<in_a_function, current_function>>

TwoTo(k) ==
  CASE k = 0 -> 1 [] k = 1 -> 2 [] k = 2 -> 4 [] k = 3 -> 8 [] k = 4 -> 16 [] k = 5 -> 32

BaseTrigger(function) == IF function = "test" THEN TEST_TRIGGER ELSE NORMAL_TRIGGER

(* Mutant: the same for every level of --verbose *)
AnyTrigger(function) == BaseTrigger(function)

Trigger(function) == BaseTrigger(function) * TwoTo(verbose_level)

ErrorLevel(size, function) ==
  CHOOSE k \in 0..5 :
    /\ TwoTo(k) <= size \div BaseTrigger(function)
    /\ k < 5 => size \div BaseTrigger(function) < TwoTo(k + 1)

Check ==
  reports' = reports \cup
    (IF in_a_function /\ lines_in_function > Trigger(current_function)
     THEN {[check |-> "size", line |-> linenum,
            level |-> ErrorLevel(lines_in_function, current_function)]}
     ELSE {})

End ==
  /\ in_a_function' = FALSE
  /\ UNCHANGED <<lines_in_function, current_function>>

-----------------------------------------------------------------------------
(* CheckForFunctionLengths *)

Starts(n) == lines[n].starts # "no"

(* The lines one of which decides whether a function starts on line n      *)
BodyStarts(n) == {m \in n..Len(lines) : lines[m].holds # "neither"}

HasBody(n) == BodyStarts(n) # {} /\ lines[Min(BodyStarts(n))].holds = "brace"

NextLine ==
  /\ linenum \in 1..Len(lines)
  /\ linenum' = linenum + 1
  /\ UNCHANGED <<verbose_level, lines>>

StartFunction ==
  /\ NextLine
  /\ Starts(linenum)
  /\ IF HasBody(linenum) THEN Begin(lines[linenum].starts) ELSE UNCHANGED state
  /\ reports' = reports \cup
       (IF BodyStarts(linenum) = {} THEN {[check |-> "body", line |-> linenum, level |-> 5]}
        ELSE {})

EndFunction ==
  /\ NextLine
  /\ ~Starts(linenum) /\ lines[linenum].closes
  /\ Check
  /\ End

CountLine ==
  /\ NextLine
  /\ ~Starts(linenum) /\ ~lines[linenum].closes
  /\ Count(lines[linenum].times)
  /\ UNCHANGED reports

(* The file that is linted *)

Write ==
  /\ linenum = 0
  /\ Len(lines) < MaxLines
  /\ \E line \in Lines : lines' = Append(lines, line)
  /\ UNCHANGED <<verbose_level, linenum, state, reports>>

ProcessFile ==
  /\ linenum = 0
  /\ linenum' = 1
  /\ UNCHANGED <<verbose_level, lines, state, reports>>

Next == Write \/ ProcessFile \/ StartFunction \/ EndFunction \/ CountLine

Spec == Init /\ [][Next]_vars

-----------------------------------------------------------------------------
(* Properties *)

(* Types; lines are counted in a function only, one for each line at most. *)
TypeOK ==
  /\ verbose_level \in Verbosities
  /\ lines \in Seq(Lines)
  /\ linenum \in 0..(Len(lines) + 1)
  /\ in_a_function \in BOOLEAN
  /\ lines_in_function \in Nat
  /\ current_function \in {"no", "plain", "test"}
  /\ in_a_function => current_function # "no"
  /\ reports \subseteq [check : {"size", "body"}, line : 1..Len(lines), level : 0..5]

(* A function that is long enough for the level of --verbose is printed at *)
(* that level: what Check reports is never held back by _ShouldPrintError, *)
(* which asks for a confidence of at least the level.                      *)
AlwaysPrinted == \A r \in reports : r.level >= verbose_level

(* The braces from line n to line c, which closes, are those of a function *)
(* that starts on line n.                                                  *)
Function(n, c) ==
  /\ n < c
  /\ Starts(n) /\ HasBody(n)
  /\ ~Starts(c) /\ lines[c].closes
  /\ \A m \in (n + 1)..(c - 1) :
       IF Starts(m) THEN ~HasBody(m) ELSE ~lines[m].closes

(* The lines up to one, without those that begin like a function *)
Weight == [m \in 1..Len(lines) |-> IF Starts(m) THEN 0 ELSE lines[m].times]
Counted[m \in 0..Len(lines)] == IF m = 0 THEN 0 ELSE Counted[m - 1] + Weight[m]

Size(n, c) == Counted[c - 1] - Counted[n]

(* What is reported on line c are the functions it closes that are longer  *)
(* than the trigger, with a level that says how long.                      *)
ReportedAt(c) ==
  LET long == {n \in 1..c : Function(n, c) /\ Size(n, c) > Trigger(lines[n].starts)}
      here == {r \in reports : r.check = "size" /\ r.line = c}
  IN /\ Cardinality(here) = Cardinality(long)
     /\ \A n \in long, r \in here :
          LET base == BaseTrigger(lines[n].starts)
          IN /\ TwoTo(r.level) * base <= Size(n, c)
             /\ r.level < 5 => Size(n, c) < TwoTo(r.level + 1) * base

(* On a line that closes a function of more lines than the trigger, and on *)
(* no other, there is a report, and its level says how long the function   *)
(* is: more than 2^level times the base, and less than 2^(level + 1) times *)
(* unless it is 5 (CheckForFunctionLengths, Check).  "Lint failed to find  *)
(* start of function body" is said of the last such lines of a file only:  *)
(* nothing behind them is the body of anything.                            *)
LongFunctionsReported ==
  /\ \A c \in 1..(linenum - 1) : ReportedAt(c)
  /\ \A r \in reports : r.check = "body" =>
       \A m \in r.line..Len(lines) : lines[m].holds = "neither"
===============================================================================
