----------------------------- MODULE IncludeState -----------------------------
(***************************************************************************)
(* _IncludeState: the includes of a file in the order the linter meets     *)
(* them.  Every #include is checked for its place among the others, every  *)
(* conditional directive restarts that, and at the end of the file the     *)
(* list of what was included decides which headers are missing.            *)
(*                                                                         *)
(* A header is what the checks ask of its name: its type for this file     *)
(* (_ClassifyInclude), "key", its canonical name among the others in       *)
(* alphabetical order, counted from one, whether it looks like a           *)
(* third-party header or a .cc file of another package, and whether it is  *)
(* the header of this file.                                                *)
(***************************************************************************)
EXTENDS Integers, SequencesExt

CONSTANTS
  Header,   \* from names of headers to [type, key, third_party, foreign_cc, own]
  Endings,  \* what the end of a file may find: [cc, exists, needs, includes]
  MaxLines  \* bound on the length of a file

Headers == DOMAIN Header
Directives == {"if", "else", "endif"}

(* What _ClassifyInclude may answer *)
Types == {"c system", "c++ system", "likely mine", "possibly mine", "other"}

ASSUME IncludeAssumption ==
  /\ \A h \in Headers : Header[h].type \in Types
  /\ Headers \cap (Directives \cup {"code"}) = {}

VARIABLES
  text,          \* history: the lines so far, a header, a directive or "code"
  section,       \* _section
  last_header,   \* key of _last_header, 0 for the empty string
  include_list,  \* a list of [header, line] for each #if, and a first one
  reports,       \* errors: [check, header, line]
  ended          \* whether the checks at the end of the file are through

vars == <<text, section, last_header, include_list, reports, ended>>

INITIAL_SECTION == 0
MY_H_SECTION == 1
C_SECTION == 2
CPP_SECTION == 3
OTHER_H_SECTION == 4

Linenum == Len(text) + 1
Report(check, header, line) == [check |-> check, header |-> header, line |-> line]

Init ==
  /\ text = <<>>
  /\ section = INITIAL_SECTION
  /\ last_header = 0
  /\ include_list = << <<>> >>
  /\ reports = {}
  /\ ended = FALSE

-----------------------------------------------------------------------------
(* The methods of _IncludeState *)

(* Mutant: only the list of the last #if *)
FindInLast(header) == \E item \in ToSet(Last(include_list)) : item.header = header

FindHeader(header) ==
  \E list \in ToSet(include_list) : \E item \in ToSet(list) : item.header = header

Lists(directive) ==
  CASE directive = "if"   -> Append(include_list, <<>>)
    [] directive = "else" -> Append(Front(include_list), <<>>)
    [] OTHER              -> include_list

NextSection(type) ==
  CASE type = "c system"   -> C_SECTION
    [] type = "c++ system" -> CPP_SECTION
    [] type \in {"likely mine", "possibly mine"} /\ section <= MY_H_SECTION -> MY_H_SECTION
    [] OTHER -> OTHER_H_SECTION

(* Mutant: C++ headers may come anywhere *)
COutOfOrder(type) == type = "c system" /\ section > NextSection(type)

OutOfOrder(type) == type \in {"c system", "c++ system"} /\ section > NextSection(type)

(* What _last_header is compared with after CheckNextIncludeOrder *)
LastHeader(type) ==
  IF OutOfOrder(type) \/ NextSection(type) # section THEN 0 ELSE last_header

AfterInclude == text # <<>> /\ Last(text) \in Headers

Unsorted(h) == LastHeader(Header[h].type) > Header[h].key /\ AfterInclude

-----------------------------------------------------------------------------
(* The lines of a file *)

Read(line) ==
  /\ ~ended
  /\ Len(text) < MaxLines
  /\ text' = Append(text, line)
  /\ UNCHANGED ended

Skipped(h) == FindHeader(h) \/ Header[h].foreign_cc \/ Header[h].third_party

(* An include that is reported as a duplicate or a .cc file, or that is    *)
(* not looked at                                                           *)
SkipInclude(h) ==
  /\ Skipped(h)
  /\ Read(h)
  /\ reports' = reports \cup
       (IF FindHeader(h) THEN {Report("duplicate", h, Linenum)}
        ELSE IF Header[h].foreign_cc THEN {Report("cc", h, Linenum)} ELSE {})
  /\ UNCHANGED <<section, last_header, include_list>>

Include(h) ==
  LET type == Header[h].type
  IN /\ ~Skipped(h)
     /\ Read(h)
     /\ include_list' = Append(Front(include_list),
                               Append(Last(include_list), [header |-> h, line |-> Linenum]))
     /\ section' = IF OutOfOrder(type) THEN section ELSE NextSection(type)
     /\ last_header' = Header[h].key
     /\ reports' = reports
          \cup (IF OutOfOrder(type) THEN {Report("order", h, Linenum)} ELSE {})
          \cup (IF Unsorted(h) THEN {Report("alpha", h, Linenum)} ELSE {})

ResetSection(directive) ==
  /\ Read(directive)
  /\ section' = INITIAL_SECTION
  /\ last_header' = 0
  /\ include_list' = Lists(directive)
  /\ UNCHANGED reports

Code ==
  /\ Read("code")
  /\ UNCHANGED <<section, last_header, include_list, reports>>

-----------------------------------------------------------------------------
(* The end of a file: "needs" are the headers its code asks for, "exists"  *)
(* whether its own header does, "includes" what that header includes       *)

Included == {item.header : item \in UNION {ToSet(list) : list \in ToSet(include_list)}}

OwnIncluded == \E h \in Included : Header[h].own

CheckForIncludeWhatYouUse(ending) ==
  LET found == ending.exists /\ OwnIncluded
      known == Included \cup (IF found THEN ending.includes ELSE {})
  IN IF ending.cc /\ ~found THEN {}
     ELSE {Report("missing", h, 0) : h \in ending.needs \ known}

FirstInclude ==
  LET items == FlattenSeq(include_list)
  IN IF items = <<>> THEN 0 ELSE items[1].line

CheckHeaderFileIncluded(ending) ==
  IF ending.cc /\ ending.exists /\ ~OwnIncluded
  THEN {Report("own", "none", FirstInclude)}
  ELSE {}

EndOfFile ==
  \E ending \in Endings :
    /\ ~ended
    /\ ended' = TRUE
    /\ reports' = reports \cup CheckForIncludeWhatYouUse(ending) \cup CheckHeaderFileIncluded(ending)
    /\ UNCHANGED <<text, section, last_header, include_list>>

Next ==
  \/ \E h \in Headers : Include(h) \/ SkipInclude(h)
  \/ \E directive \in Directives : ResetSection(directive)
  \/ Code
  \/ EndOfFile

Spec == Init /\ [][Next]_vars

-----------------------------------------------------------------------------
(* Properties *)

Reported(check, n) == \E r \in reports : r.check = check /\ r.line = n

(* Line n is an include that is looked at, and took its place in the order *)
Ordinary(n) ==
  text[n] \in Headers /\ ~Header[text[n]].third_party /\ ~Header[text[n]].foreign_cc
Placed(n) == Ordinary(n) /\ ~Reported("duplicate", n)
Type(n) == Header[text[n]].type
Since(n) == {m \in 1..(n - 1) : /\ Placed(m)
                                /\ \A k \in m..n : text[k] \notin Directives}
Mine(n) == Type(n) \in {"likely mine", "possibly mine"}
Ahead(n) == {m \in Since(n) : Type(m) = "other" \/
                              (Mine(m) /\ \E k \in Since(m) : ~Mine(k))}

(* A system header is reported exactly if, since the last directive, a     *)
(* header of a later group was included: another header, the file's own    *)
(* after any header of a group, or a C++ header before a C one             *)
(* (CheckNextIncludeOrder).                                                *)
OrderReported ==
  \A n \in 1..Len(text) : Placed(n) =>
    (Reported("order", n) <=>
       \/ Type(n) = "c++ system" /\ Ahead(n) # {}
       \/ Type(n) = "c system" /\ \E m \in Since(n) : m \in Ahead(n) \/ Type(m) = "c++ system")

Ifs(n) == Cardinality({k \in 1..(n - 1) : text[k] = "if"})
Endifs(n) == Cardinality({k \in 1..(n - 1) : text[k] = "endif"})
Nested == \E k \in 1..Len(text) : text[k] = "if" /\ Ifs(k) > Endifs(k)

(* #else and #endif only inside a conditional *)
Balanced ==
  \A k \in 1..Len(text) : text[k] \in {"else", "endif"} => Ifs(k) > Endifs(k)

(* Without nested conditionals: line m is in a branch that an #else ends   *)
(* in front of line n.                                                     *)
OtherBranch(m, n) ==
  \E d \in (m + 1)..(n - 1) : text[d] = "else" /\ \A k \in m..d : text[k] # "if"

DuplicateReported ==
  Nested \/ \A n \in 1..Len(text) : Ordinary(n) =>
    (Reported("duplicate", n) <=>
       \E m \in 1..(n - 1) : text[m] = text[n] /\ ~OtherBranch(m, n))

UnconditionalCounts ==
  \A n \in 1..Len(text) : Ordinary(n) /\ Ifs(n) = Endifs(n) =>
    /\ Report("missing", text[n], 0) \notin reports
    /\ Header[text[n]].own => \A r \in reports : r.check # "own"

(* Without nested conditionals, an include is reported as a duplicate      *)
(* exactly if there is an earlier one of the same header in no branch that *)
(* an #else has ended; and a header that is included outside every         *)
(* conditional is never reported as missing, nor is the file's own one,    *)
(* whatever conditionals there are before and after, unless its name is    *)
(* taken for a third-party one (FindHeader on the lists of ResetSection,   *)
(* the comment on include_list).                                           *)
IncludesRemembered == DuplicateReported /\ UnconditionalCounts
===============================================================================
