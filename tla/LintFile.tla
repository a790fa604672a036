------------------------------- MODULE LintFile -------------------------------
(***************************************************************************)
(* ProcessFileData: the checks of one file after the other in the order    *)
(* the linter makes them, and the NOLINT comments that hide what they      *)
(* find.  A comment is only known once its line has been parsed, and most  *)
(* lines are parsed when their turn comes, so what is hidden depends on    *)
(* the order of the checks.                                                *)
(*                                                                         *)
(* What a check looks for is not modelled: a line says what the checks     *)
(* find while they work on it, and on which line they report it.           *)
(***************************************************************************)
EXTENDS Integers, Sequences

CONSTANTS
  Categories,        \* _ERROR_CATEGORIES
  LegacyCategories,  \* _LEGACY_ERROR_CATEGORIES
  All,               \* NOLINT alone, or with a star in parentheses
  NoComment,         \* a line without a NOLINT comment
  CSuppressed,       \* _DEFAULT_C_SUPPRESSED_CATEGORIES
  KernelSuppressed,  \* _DEFAULT_KERNEL_SUPPRESSED_CATEGORIES
  Runs               \* the lists of files that are linted

-----------------------------------------------------------------------------
(* A file: "copyright" if one is found, "header" if it has a header        *)
(* extension, the state of its header guard, the line of a multi-line      *)
(* comment that never ends (or 0), what the checks after the last line     *)
(* find, and its lines:                                                    *)
(*   nolint      what its NOLINT comment says                              *)
(*   directives  "c" for LINT_C_FILE, "kernel" for LINT_KERNEL_FILE        *)
(*   comment     whether it belongs to a multi-line comment that ends      *)
(*   bad         "utf8" and "nul" characters on it                         *)
(*   early       found by NestingState.Update and the namespace check      *)
(*   checks      found by the checks between the asm test and the end of   *)
(*               ProcessLine                                               *)
(*   asm         whether it is inside an asm block after Update            *)
(*   cxx11       whether FlagCxx11Features finds something                 *)
(* Something found has a category, the distance to the line it is          *)
(* reported on, and for CheckTrailingSemicolon "ahead", because that check *)
(* parses the NOLINT comment of the line it reports on.                    *)

(* The categories this module reports itself *)
Reported ==
  {"legal/copyright", "readability/nolint", "readability/multiline_comment",
   "build/header_guard", "build/c++11", "readability/utf8", "readability/nul",
   "whitespace/ending_newline"}

IsNolint(c) ==
  c # NoComment => c.next \in BOOLEAN

(* CheckTrailingSemicolon works ahead; the other checks that report        *)
(* "readability/braces" do it on the line they look at                     *)
IsFound(f) ==
  /\ f.category \in Categories
  /\ f.distance \in Int
  /\ f.ahead \in BOOLEAN
  /\ f.ahead => f.distance >= 0
  /\ f.category = "readability/braces" => f.ahead \/ f.distance <= 0

IsLine(l) ==
  /\ IsNolint(l.nolint)
  /\ Len(l.early) \in Nat
  /\ \A i \in 1..Len(l.early) : IsFound(l.early[i]) /\ ~l.early[i].ahead
  /\ Len(l.checks) \in Nat
  /\ \A i \in 1..Len(l.checks) : IsFound(l.checks[i])

(* What is found after the last line is reported on a line passed by then  *)
IsFile(f) ==
  /\ Len(f.lines) \in Nat
  /\ \A l \in 1..Len(f.lines) : IsLine(f.lines[l])
  /\ f.ifndef \in Nat
  /\ f.endif \in Nat
  /\ f.open \in Nat
  /\ Len(f.final) \in Nat
  /\ \A i \in 1..Len(f.final) : /\ f.final[i].category \in Categories
                                /\ f.final[i].line \in 0..Len(f.lines) + 1

Linted == UNION {{r[i] : i \in 1..Len(r)} : r \in Runs}

ASSUME LintAssumption ==
  /\ Reported \subseteq Categories
  /\ LegacyCategories \cap (Categories \cup {All}) = {}
  /\ \A r \in Runs : r \in Seq(Linted)
  /\ \A f \in Linted : IsFile(f)

VARIABLES
  phase,   \* the call of ProcessFileData that is next
  files,   \* the files still to be linted
  file,    \* the file that is linted
  line,    \* the variable of the loop over the lines
  nth,     \* what the checks of the line found and reported so far
  lint     \* [supp : _error_suppressions, glob : _global_error_suppressions,
           \*  log : history of the calls of Error for this file]

vars == <<phase, files, file, line, nth, lint>>

NumLines == Len(file.lines)

Marker == [nolint |-> NoComment, directives |-> {}, comment |-> FALSE, bad |-> {},
           early |-> <<>>, checks |-> <<>>, asm |-> FALSE, cxx11 |-> FALSE]

(* The lines with a marker on each side; a line of a multi-line comment    *)
(* is "/**/" once RemoveMultiLineComments is through                       *)
RawLine(l) == IF l \in 1..NumLines THEN file.lines[l] ELSE Marker
LineAt(l) == IF RawLine(l).comment THEN Marker ELSE RawLine(l)

NoSuppressions == [supp |-> {}, glob |-> {}, log |-> <<>>]

Init ==
  /\ files \in Runs
  /\ phase = "next"
  /\ file = [lines |-> <<>>]
  /\ line = 0
  /\ nth = 0
  /\ lint = NoSuppressions

-----------------------------------------------------------------------------
(* The suppressions and the reports, as functions of "lint" *)

IsErrorSuppressedByNolint(st, category, at) ==
  \/ category \in st.glob
  \/ <<category, at>> \in st.supp
  \/ <<All, at>> \in st.supp

(* Error, with "from" the line the linter is working on *)
Error(st, category, at) ==
  [st EXCEPT !.log = Append(@,
     [category |-> category, line |-> at, from |-> line, in |-> phase,
      printed |-> ~IsErrorSuppressedByNolint(st, category, at)])]

SuppressedLine(c, l) == IF c.next THEN l + 1 ELSE l

(* ParseNolintSuppressions for one line *)
ParseNolint(st, l) ==
  LET c == LineAt(l).nolint
  IN CASE c = NoComment -> st
       [] c # NoComment /\ c.category \in Categories \cup {All} ->
            [st EXCEPT !.supp = @ \cup {<<c.category, SuppressedLine(c, l)>>}]
       [] c # NoComment /\ c.category \in LegacyCategories -> st
       [] OTHER -> Error(st, "readability/nolint", l)

-----------------------------------------------------------------------------
(* ProcessFileData before its loop *)

KeepGlobal == [supp |-> {}, glob |-> lint.glob, log |-> <<>>]  \* mutant: half a reset
ResetNolintSuppressions == NoSuppressions

StartFile ==
  /\ phase = "next"
  /\ files # <<>>
  /\ file' = Head(files)
  /\ files' = Tail(files)
  /\ line' = -1
  /\ nth' = 0
  /\ lint' = ResetNolintSuppressions
  /\ phase' = "copyright"

CheckForCopyright ==
  /\ phase = "copyright"
  /\ lint' = IF file.copyright THEN lint ELSE Error(lint, "legal/copyright", 0)
  /\ phase' = "global"
  /\ UNCHANGED <<files, file, line, nth>>

(* All lines are searched as they are in the file *)
ProcessGlobalSuppressions ==
  /\ phase = "global"
  /\ LET found == UNION {RawLine(l).directives : l \in 1..NumLines} IN
     lint' = [lint EXCEPT !.glob =
                @ \cup (IF "c" \in found THEN CSuppressed ELSE {})
                  \cup (IF "kernel" \in found THEN KernelSuppressed ELSE {})]
  /\ phase' = "comments"
  /\ UNCHANGED <<files, file, line, nth>>

(* lineix_begin already counts the marker in front of the first line *)
RemoveMultiLineComments ==
  /\ phase = "comments"
  /\ lint' = IF file.open = 0 THEN lint
             ELSE Error(lint, "readability/multiline_comment", file.open + 1)
  /\ phase' = IF file.header THEN "guard" ELSE "parse"
  /\ line' = IF file.header THEN line ELSE 0
  /\ UNCHANGED <<files, file, nth>>

HasGuardNolint ==
  \E l \in 1..NumLines :
    LET c == LineAt(l).nolint IN
    c # NoComment /\ ~c.next /\ c.category = "build/header_guard"

(* The "#ifndef" line and, after it, the "#endif" line: the comment of     *)
(* each is parsed before what is wrong with it is reported                 *)
GuardReports ==
  LET ifndef == IF file.guard = "other"
                THEN Error(ParseNolint(lint, file.ifndef), "build/header_guard", file.ifndef)
                ELSE lint
      endif == ParseNolint(ifndef, file.endif)
  IN IF file.endifComment THEN endif
     ELSE Error(endif, "build/header_guard", file.endif)

CheckForHeaderGuard ==
  /\ phase = "guard"
  /\ lint' = CASE HasGuardNolint -> lint
               [] ~HasGuardNolint /\ file.guard = "none" ->
                    Error(lint, "build/header_guard", 0)
               [] OTHER -> GuardReports
  /\ phase' = "parse"
  /\ line' = 0
  /\ UNCHANGED <<files, file, nth>>

-----------------------------------------------------------------------------
(* ProcessLine and FlagCxx11Features, for each line and both markers *)

ParseNolintSuppressions ==
  /\ phase = "parse"
  /\ lint' = ParseNolint(lint, line)
  /\ phase' = "early"
  /\ nth' = 0
  /\ UNCHANGED <<files, file, line>>

(* NestingState.Update and CheckForNamespaceIndentation *)
EarlyChecks ==
  /\ phase = "early"
  /\ IF nth < Len(LineAt(line).early)
     THEN LET found == LineAt(line).early[nth + 1] IN
          /\ lint' = Error(lint, found.category, line + found.distance)
          /\ nth' = nth + 1
          /\ phase' = phase
     ELSE /\ phase' = IF LineAt(line).asm THEN "cxx11" ELSE "checks"
          /\ nth' = 0
          /\ lint' = lint
  /\ UNCHANGED <<files, file, line>>

ParsedNothing(st, at) == st                   \* mutant: no look at the line ahead
ParsedAhead(st, at) == ParseNolint(ParseNolint(st, at - 1), at)

(* The other checks of ProcessLine.  CheckTrailingSemicolon parses the     *)
(* comments of the line it reports on and of the one before.               *)
Checks ==
  /\ phase = "checks"
  /\ IF nth < Len(LineAt(line).checks)
     THEN LET found == LineAt(line).checks[nth + 1]
              at == line + found.distance
              st == IF found.ahead THEN ParsedAhead(lint, at) ELSE lint
          IN /\ lint' = Error(st, found.category, at)
             /\ nth' = nth + 1
             /\ phase' = phase
     ELSE /\ phase' = "cxx11"
          /\ nth' = 0
          /\ lint' = lint
  /\ UNCHANGED <<files, file, line>>

MoreLines == line <= NumLines

FlagCxx11Features ==
  /\ phase = "cxx11"
  /\ lint' = IF LineAt(line).cxx11 THEN Error(lint, "build/c++11", line) ELSE lint
  /\ IF MoreLines
     THEN line' = line + 1 /\ phase' = "parse"
     ELSE line' = line /\ phase' = "final"
  /\ UNCHANGED <<files, file, nth>>

-----------------------------------------------------------------------------
(* ProcessFileData after its loop *)

(* CheckCompletedBlocks, CheckForIncludeWhatYouUse, CheckHeaderFileIncluded *)
FinalChecks ==
  /\ phase = "final"
  /\ IF nth < Len(file.final)
     THEN /\ lint' = Error(lint, file.final[nth + 1].category, file.final[nth + 1].line)
          /\ nth' = nth + 1
          /\ UNCHANGED <<line, phase>>
     ELSE /\ lint' = lint
          /\ nth' = 0
          /\ line' = 0
          /\ phase' = "characters"
  /\ UNCHANGED <<files, file>>

(* The loop of CheckForBadCharacters, over lines RemoveMultiLineComments   *)
(* has changed in place                                                    *)
CheckForBadCharacters ==
  /\ phase = "characters"
  /\ LET bad == LineAt(line).bad
         utf8 == IF "utf8" \in bad THEN Error(lint, "readability/utf8", line) ELSE lint
     IN lint' = IF "nul" \in bad THEN Error(utf8, "readability/nul", line) ELSE utf8
  /\ IF MoreLines
     THEN line' = line + 1 /\ phase' = phase
     ELSE line' = line /\ phase' = "eof"
  /\ UNCHANGED <<files, file, nth>>

CheckForNewlineAtEOF ==
  /\ phase = "eof"
  /\ lint' = IF file.newline THEN lint
             ELSE Error(lint, "whitespace/ending_newline", NumLines)
  /\ phase' = "next"
  /\ UNCHANGED <<files, file, line, nth>>

Next ==
  \/ StartFile
  \/ CheckForCopyright
  \/ ProcessGlobalSuppressions
  \/ RemoveMultiLineComments
  \/ CheckForHeaderGuard
  \/ ParseNolintSuppressions
  \/ EarlyChecks
  \/ Checks
  \/ FlagCxx11Features
  \/ FinalChecks
  \/ CheckForBadCharacters
  \/ CheckForNewlineAtEOF

Spec == Init /\ [][Next]_vars

-----------------------------------------------------------------------------

Logged == {lint.log[i] : i \in 1..Len(lint.log)}

(* What the comments of the file say about a category on a line, whatever  *)
(* has been parsed                                                         *)
MarkedBy(l, category, at) ==
  LET c == LineAt(l).nolint
  IN /\ c # NoComment
     /\ c.category \in {category, All}
     /\ at = IF c.next THEN l + 1 ELSE l

Marked(category, at) == \E l \in {at - 1, at} : MarkedBy(l, category, at)

WholeFile(category) ==
  \E l \in 1..NumLines :
    \/ "c" \in RawLine(l).directives /\ category \in CSuppressed
    \/ "kernel" \in RawLine(l).directives /\ category \in KernelSuppressed

(* Nothing is hidden that no comment of this file asks to hide on that     *)
(* line: no comment reaches further, to another category or into the next  *)
(* file of the run (ResetNolintSuppressions, ParseNolintSuppressions,      *)
(* IsErrorSuppressedByNolint).                                             *)
OnlyMarkedIsHidden ==
  \A e \in Logged : ~e.printed => Marked(e.category, e.line) \/ WholeFile(e.category)

(* What a comment asks to hide is hidden when the linter has passed the    *)
(* line, and also ahead of it when the check is CheckTrailingSemicolon,    *)
(* which looks at the comments ahead before it reports.                    *)
MarkedIsHidden ==
  \A e \in Logged :
    e.printed /\ (e.line <= e.from \/ e.category = "readability/braces") =>
      ~Marked(e.category, e.line) /\ ~WholeFile(e.category)

-----------------------------------------------------------------------------
(* What the usage text and the comments say and the code does not do *)

(* NOLINT "suppresses errors of all categories on that line",              *)
(* and NOLINT(category) those of the category.                             *)
NolintHidesItsLine ==
  \A e \in Logged :
    e.printed /\ e.line \in 1..NumLines =>
      ~(MarkedBy(e.line, e.category, e.line) /\ ~LineAt(e.line).nolint.next)

=============================================================================
