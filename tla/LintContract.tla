----------------------------- MODULE LintContract -----------------------------
(***************************************************************************)
(* What cpplint.py promises whoever starts it, a build script for example: *)
(* the files of the command line are handled one after the other, errors   *)
(* are only reported of a file that is linted, and the exit status of a    *)
(* run that handled every file says if there were any.                     *)
(***************************************************************************)
EXTENDS Integers, Sequences

CONSTANTS
  Requests,  \* the lists of files a command line may give
  None       \* no exit status yet

VARIABLES
  todo,      \* the files not yet left
  done,      \* the files left, what became of each and the errors up to there
  errors,    \* the errors reported
  status     \* the exit status

vars == <<todo, done, errors, status>>

Init ==
  /\ todo \in Requests
  /\ done = <<>>
  /\ errors = 0
  /\ status = None

(* An error of the file that is handled *)
Report ==
  /\ status = None
  /\ todo # <<>>
  /\ errors' = errors + 1
  /\ UNCHANGED <<todo, done, status>>

Reported == IF done = <<>> THEN 0 ELSE done[Len(done)].errors

(* The next file is left: nothing is reported of one that was not linted *)
Leave(what) ==
  /\ status = None
  /\ todo # <<>>
  /\ what # "linted" => errors = Reported
  /\ done' = Append(done, [file |-> Head(todo), what |-> what, errors |-> errors])
  /\ todo' = Tail(todo)
  /\ UNCHANGED <<errors, status>>

Finish ==
  /\ status = None
  /\ todo = <<>>
  /\ done # <<>>
  /\ status' = IF errors > 0 THEN 1 ELSE 0
  /\ UNCHANGED <<todo, done, errors>>

(* The command line is refused, or only asks for the list of categories *)
Refuse ==
  /\ status = None
  /\ done = <<>>
  /\ errors = 0
  /\ status' \in {0, 1}
  /\ UNCHANGED <<todo, done, errors>>

(* A CPPLINT.cfg that cannot be used stops the run in the middle of a file *)
Abort ==
  /\ status = None
  /\ todo # <<>>
  /\ errors = Reported
  /\ status' = 1
  /\ UNCHANGED <<todo, done, errors>>

Next ==
  \/ Report
  \/ \E what \in {"excluded", "unreadable", "ignored", "linted"} : Leave(what)
  \/ Finish
  \/ Refuse
  \/ Abort

Spec == Init /\ [][Next]_vars

=============================================================================
