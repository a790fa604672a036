---------------------------- MODULE LintFileProofs ----------------------------
(***************************************************************************)
(* Theorems about LintFile, for every list of files of every length, all   *)
(* comments and directives in them and everything the checks may find:     *)
(* what is hidden is what a comment of the file asks to hide.              *)
(***************************************************************************)
EXTENDS LintFile, SequenceTheorems, TLAPS

-----------------------------------------------------------------------------
(* Why these hold *)

BeforeLoop == {"copyright", "global", "comments", "guard"}
InLoop == {"parse", "early", "checks", "cxx11"}
AfterLoop == {"final", "characters", "eof"}
Phases == {"next"} \cup BeforeLoop \cup InLoop \cup AfterLoop

Entry == [category : Categories, line : Int, from : Int, in : Phases, printed : BOOLEAN]

Store == [supp : SUBSET ((Categories \cup {All}) \X Int),
          glob : SUBSET (CSuppressed \cup KernelSuppressed),
          log : Seq(Entry)]

(* The type of every variable, and the line of the loops *)
TypeOK ==
  /\ phase \in Phases
  /\ files \in Seq(Linted)
  /\ phase # "next" => file \in Linted
  /\ nth \in Nat
  /\ line \in Int
  /\ phase \in BeforeLoop => line = -1
  /\ phase \in InLoop \cup AfterLoop => line \in 0..NumLines + 1
  /\ phase \in {"final", "eof"} => line = NumLines + 1
  /\ lint \in Store

(* A comment that names a category, and the entry it makes *)
Recognised(l) ==
  /\ LineAt(l).nolint # NoComment
  /\ LineAt(l).nolint.category \in Categories \cup {All}

Suppression(l) == <<LineAt(l).nolint.category, SuppressedLine(LineAt(l).nolint, l)>>

(* Everything stored was asked for *)
Sound(st) ==
  /\ \A s \in st.supp : \E l \in 1..NumLines : Recognised(l) /\ s = Suppression(l)
  /\ \A c \in st.glob : WholeFile(c)

(* What has been asked for is stored, up to the line of the loop *)
Parsed ==
  CASE phase = "parse" -> 1..line - 1
    [] phase \in {"early", "checks", "cxx11"} -> 1..line
    [] phase \in AfterLoop -> 1..NumLines
    [] OTHER -> {}

Stored(st, l) == Recognised(l) => Suppression(l) \in st.supp

KnownInv ==
  /\ phase \notin {"next", "copyright", "global"} =>
       {c \in CSuppressed \cup KernelSuppressed : WholeFile(c)} \subseteq lint.glob
  /\ \A l \in Parsed : l \in 1..NumLines => Stored(lint, l)

(* Every report so far was right *)
Right(e) ==
  /\ ~e.printed => Marked(e.category, e.line) \/ WholeFile(e.category)
  /\ e.printed /\ (e.line <= e.from \/ e.category = "readability/braces") =>
       ~Marked(e.category, e.line) /\ ~WholeFile(e.category)

AllRight(st) == \A i \in 1..Len(st.log) : Right(st.log[i])

(* The inductive invariant: what is stored is what the comments of the     *)
(* lines passed and the directives of the file ask for                     *)
LintInv ==
  /\ TypeOK
  /\ Sound(lint)
  /\ KnownInv
  /\ AllRight(lint)

-----------------------------------------------------------------------------
(* Lemmas *)

(* The file that is linted is one of those given.                          *)
LEMMA LintedFile ==
  ASSUME NEW f \in Linted
  PROVE  IsFile(f)
BY LintAssumption

(* Only known categories are reported.                                   *)
LEMMA ReportedCategories == Reported \subseteq Categories
BY LintAssumption

(* Reading a line only depends on the file.                                *)
LEMMA SameFile ==
  ASSUME file' = file
  PROVE  /\ NumLines' = NumLines
         /\ \A l : LineAt(l)' = LineAt(l)
         /\ \A c : WholeFile(c)' <=> WholeFile(c)
         /\ \A c, at : Marked(c, at)' <=> Marked(c, at)
         /\ \A l : Recognised(l)' <=> Recognised(l)
         /\ \A l : Suppression(l)' = Suppression(l)
<1>1. NumLines' = NumLines
  BY DEF NumLines
<1>2. \A l : RawLine(l)' = RawLine(l)
  BY <1>1 DEF RawLine
<1>3. \A l : LineAt(l)' = LineAt(l)
  BY <1>2 DEF LineAt
<1>4. \A c : WholeFile(c)' <=> WholeFile(c)
  BY <1>1, <1>2 DEF WholeFile
<1>5. \A c, at : Marked(c, at)' <=> Marked(c, at)
  BY <1>3 DEF Marked, MarkedBy
<1>6. \A l : Recognised(l)' <=> Recognised(l)
  BY <1>3 DEF Recognised
<1>7. \A l : Suppression(l)' = Suppression(l)
  BY <1>3 DEF Suppression, SuppressedLine
<1> QED BY <1>1, <1>3, <1>4, <1>5, <1>6, <1>7

(* Only a line of the file has a comment, and it is for this line or the   *)
(* next.                                                                   *)
LEMMA CommentedLine ==
  ASSUME IsFile(file), NEW l \in Int, LineAt(l).nolint # NoComment
  PROVE  l \in 1..NumLines /\ LineAt(l).nolint.next \in BOOLEAN
<1>1. Marker.nolint = NoComment
  BY DEF Marker
<1>2. LineAt(l) = RawLine(l) /\ RawLine(l) # Marker
  BY <1>1 DEF LineAt
<1>3. l \in 1..NumLines /\ LineAt(l) = file.lines[l]
  BY <1>2 DEF RawLine
<1>4. IsLine(file.lines[l])
  BY <1>3 DEF IsFile, NumLines
<1> QED BY <1>3, <1>4 DEF IsLine, IsNolint

(* A comment marks a category on a line if and only if its entry says so.  *)
LEMMA MarkedByEntry ==
  ASSUME IsFile(file), NEW category \in Categories, NEW at \in Int, NEW l \in Int
  PROVE  MarkedBy(l, category, at) <=>
           /\ Recognised(l)
           /\ Suppression(l) \in {<<category, at>>, <<All, at>>}
BY DEF MarkedBy, Recognised, Suppression, SuppressedLine

(* A comment reaches its own line or the next.                           *)
LEMMA SuppressionLine ==
  ASSUME IsFile(file), NEW l \in Int, Recognised(l), NEW c, NEW at, Suppression(l) = <<c, at>>
  PROVE  at \in Int /\ l \in {at - 1, at} /\ c \in Categories \cup {All}
BY CommentedLine DEF Recognised, Suppression, SuppressedLine

-----------------------------------------------------------------------------
(* One report                                                              *)

(* Error appends to what is reported and leaves the suppressions alone.    *)
LEMMA ErrorAppends ==
  ASSUME NEW st \in Store, NEW category \in Categories, NEW at \in Int, line \in Int,
         phase \in Phases
  PROVE  LET e == [category |-> category, line |-> at, from |-> line, in |-> phase,
                   printed |-> ~IsErrorSuppressedByNolint(st, category, at)]
         IN /\ Error(st, category, at) \in Store
            /\ Error(st, category, at).supp = st.supp
            /\ Error(st, category, at).glob = st.glob
            /\ Error(st, category, at).log = Append(st.log, e)
            /\ e \in Entry
<1> DEFINE e == [category |-> category, line |-> at, from |-> line, in |-> phase,
                 printed |-> ~IsErrorSuppressedByNolint(st, category, at)]
<1>1. (~IsErrorSuppressedByNolint(st, category, at)) \in BOOLEAN
  BY DEF IsErrorSuppressedByNolint
<1>2. e \in Entry
  BY <1>1 DEF Entry
<1>3. Error(st, category, at) = [st EXCEPT !.log = Append(@, e)]
  BY DEF Error
<1> HIDE DEF e
<1>4. Append(st.log, e) \in Seq(Entry)
  BY <1>2 DEF Store
<1>5. /\ [st EXCEPT !.log = Append(@, e)] \in Store
      /\ [st EXCEPT !.log = Append(@, e)].supp = st.supp
      /\ [st EXCEPT !.log = Append(@, e)].glob = st.glob
      /\ [st EXCEPT !.log = Append(@, e)].log = Append(st.log, e)
  BY <1>4 DEF Store
<1> QED BY <1>2, <1>3, <1>5 DEF e

(* A report is right if what is stored was asked for, and if, when the     *)
(* property speaks of it, everything asked for its line is stored.         *)
LEMMA ErrorIsRight ==
  ASSUME IsFile(file), line \in Int, phase \in Phases,
         NEW st \in Store, Sound(st), AllRight(st),
         NEW category \in Categories, NEW at \in Int,
         at <= line \/ category = "readability/braces" =>
           /\ WholeFile(category) => category \in st.glob
           /\ \A l \in 1..NumLines : l \in {at - 1, at} => Stored(st, l)
  PROVE  /\ Error(st, category, at) \in Store
         /\ Error(st, category, at).supp = st.supp
         /\ Error(st, category, at).glob = st.glob
         /\ Sound(Error(st, category, at))
         /\ AllRight(Error(st, category, at))
<1> DEFINE hidden == IsErrorSuppressedByNolint(st, category, at)
           e == [category |-> category, line |-> at, from |-> line, in |-> phase,
                 printed |-> ~hidden]
           new == Error(st, category, at)
<1>1. /\ new \in Store /\ new.supp = st.supp /\ new.glob = st.glob
      /\ new.log = Append(st.log, e) /\ e \in Entry
  BY ErrorAppends
<1>2. Sound(new)
  BY <1>1 DEF Sound
<1>3. hidden => Marked(category, at) \/ WholeFile(category)
  <2>1. CASE category \in st.glob
    BY <2>1 DEF Sound
  <2>2. ASSUME NEW c \in {category, All}, <<c, at>> \in st.supp
        PROVE  Marked(category, at)
    <3>1. PICK l \in 1..NumLines : Recognised(l) /\ <<c, at>> = Suppression(l)
      BY <2>2 DEF Sound
    <3>2. NumLines \in Nat
      BY DEF IsFile, NumLines
    <3>3. l \in Int /\ l \in {at - 1, at}
      BY <3>1, <3>2, SuppressionLine
    <3>4. MarkedBy(l, category, at)
      BY <2>2, <3>1, <3>3, MarkedByEntry
    <3> QED BY <3>3, <3>4 DEF Marked
  <2> QED BY <2>1, <2>2 DEF IsErrorSuppressedByNolint
<1>4. ~hidden /\ (at <= line \/ category = "readability/braces") =>
        ~Marked(category, at) /\ ~WholeFile(category)
  <2> SUFFICES ASSUME ~hidden, at <= line \/ category = "readability/braces"
               PROVE  ~Marked(category, at) /\ ~WholeFile(category)
    OBVIOUS
  <2>1. ~WholeFile(category)
    BY DEF IsErrorSuppressedByNolint
  <2>2. ASSUME NEW l \in {at - 1, at}, MarkedBy(l, category, at) PROVE FALSE
    <3>1. l \in Int /\ Recognised(l) /\ Suppression(l) \in {<<category, at>>, <<All, at>>}
      BY <2>2, MarkedByEntry
    <3>2. l \in 1..NumLines
      BY <3>1, CommentedLine DEF Recognised
    <3>3. Suppression(l) \in st.supp
      BY <3>1, <3>2 DEF Stored
    <3> QED BY <3>1, <3>3 DEF IsErrorSuppressedByNolint
  <2> QED BY <2>1, <2>2 DEF Marked
<1>5. Right(e)
  <2>1. /\ e.category = category /\ e.line = at /\ e.from = line /\ (e.printed <=> ~hidden)
    BY DEF IsErrorSuppressedByNolint
  <2> HIDE DEF e, hidden
  <2> QED BY <1>3, <1>4, <2>1 DEF Right
<1>6. AllRight(new)
  <2> HIDE DEF new, e
  <2>1. st.log \in Seq(Entry)
    BY DEF Store
  <2>2. /\ Len(new.log) = Len(st.log) + 1 /\ Len(st.log) \in Nat
        /\ \A i \in 1..Len(st.log) : new.log[i] = st.log[i]
        /\ new.log[Len(st.log) + 1] = e
    BY <1>1, <2>1, AppendProperties
  <2>3. \A i \in 1..Len(new.log) : i \in 1..Len(st.log) \/ i = Len(st.log) + 1
    BY <2>2
  <2>4. ASSUME NEW i \in 1..Len(new.log) PROVE Right(new.log[i])
    BY <1>5, <2>2, <2>3 DEF AllRight
  <2> QED BY <2>4 DEF AllRight
<1> QED BY <1>1, <1>2, <1>6

(* A comment is parsed: its entry is stored, or the report that nobody     *)
(* knows its category is right.                                            *)
LEMMA ParseIsRight ==
  ASSUME IsFile(file), line \in Int, phase \in Phases,
         NEW st \in Store, Sound(st), AllRight(st), NEW l \in Int,
         l <= line =>
           /\ \A c \in Categories : WholeFile(c) => c \in st.glob
           /\ \A k \in 1..NumLines : k = l - 1 => Stored(st, k)
  PROVE  /\ ParseNolint(st, l) \in Store
         /\ st.supp \subseteq ParseNolint(st, l).supp
         /\ ParseNolint(st, l).glob = st.glob
         /\ Sound(ParseNolint(st, l))
         /\ AllRight(ParseNolint(st, l))
         /\ Stored(ParseNolint(st, l), l)
<1> DEFINE c == LineAt(l).nolint
           new == ParseNolint(st, l)
<1>1. CASE c = NoComment
  <2>1. new = st
    BY <1>1 DEF ParseNolint
  <2> QED BY <1>1, <2>1 DEF Stored, Recognised
<1>2. CASE Recognised(l)
  <2>1. c # NoComment /\ c.category \in Categories \cup {All}
    BY <1>2 DEF Recognised
  <2>2. l \in 1..NumLines /\ c.next \in BOOLEAN
    BY <2>1, CommentedLine
  <2>3. Suppression(l) \in (Categories \cup {All}) \X Int
    BY <2>1, <2>2 DEF Suppression, SuppressedLine
  <2>4. new = [st EXCEPT !.supp = @ \cup {Suppression(l)}]
    <3>1. c.category \notin LegacyCategories
      BY <2>1, LintAssumption
    <3> QED BY <2>1, <3>1 DEF ParseNolint, Suppression
  <2>5. /\ new \in Store /\ new.supp = st.supp \cup {Suppression(l)}
        /\ new.glob = st.glob /\ new.log = st.log
    BY <2>3, <2>4 DEF Store
  <2>6. Sound(new) /\ AllRight(new) /\ Stored(new, l)
    <3> HIDE DEF new, c
    <3> QED BY <1>2, <2>2, <2>5 DEF Sound, AllRight, Stored
  <2> QED BY <2>5, <2>6
<1>3. CASE c # NoComment /\ ~Recognised(l) /\ c.category \in LegacyCategories
  <2>1. c.category \notin Categories \cup {All}
    BY <1>3 DEF Recognised
  <2>2. new = st
    BY <1>3, <2>1 DEF ParseNolint
  <2> QED BY <1>3, <2>2 DEF Stored
<1>4. CASE c # NoComment /\ ~Recognised(l) /\ c.category \notin LegacyCategories
  <2>1. c.category \notin Categories \cup {All}
    BY <1>4 DEF Recognised
  <2>2. new = Error(st, "readability/nolint", l)
    BY <1>4, <2>1 DEF ParseNolint
  <2>3. "readability/nolint" \in Categories
    BY ReportedCategories DEF Reported
  <2>4. \A k \in 1..NumLines : k = l => Stored(st, k)
    BY <1>4 DEF Stored
  <2>5. /\ new \in Store /\ new.supp = st.supp /\ new.glob = st.glob
        /\ Sound(new) /\ AllRight(new)
    <3>1. l <= line => \A k \in 1..NumLines : k \in {l - 1, l} => Stored(st, k)
      BY <2>4
    <3> QED BY <2>2, <2>3, <3>1, ErrorIsRight, SMTT(30)
  <2> QED BY <1>4, <2>5 DEF Stored
<1> QED BY <1>1, <1>2, <1>3, <1>4 DEF Recognised

-----------------------------------------------------------------------------
(* What has been stored when a check reports                               *)

(* The marker around the lines has no comment and nothing to be found.     *)
LEMMA AnyLine ==
  ASSUME IsFile(file), NEW l \in Int
  PROVE  IsLine(LineAt(l))
<1>1. Len(<<>>) = 0 /\ 1..0 = {}
  OBVIOUS
<1>2. IsLine(Marker)
  BY <1>1 DEF IsLine, IsNolint, Marker
<1> QED BY <1>2 DEF LineAt, RawLine, IsFile, NumLines

(* What is stored in the loop: the directives of the file and the        *)
(* comments passed.                                                      *)
LEMMA KnownLines ==
  ASSUME LintInv, phase \in InLoop \cup AfterLoop
  PROVE  /\ \A c : WholeFile(c) => c \in lint.glob
         /\ \A l \in 1..NumLines :
              \/ l < line
              \/ l = line /\ phase # "parse"
              \/ phase \in AfterLoop
              => Stored(lint, l)
<1>1. \A c : WholeFile(c) => c \in CSuppressed \cup KernelSuppressed
  BY DEF WholeFile
<1>2. {c \in CSuppressed \cup KernelSuppressed : WholeFile(c)} \subseteq lint.glob
  BY DEF LintInv, KnownInv, InLoop, AfterLoop
<1>3. line \in Int /\ NumLines \in Nat
  BY LintedFile DEF LintInv, TypeOK, IsFile, NumLines, InLoop, AfterLoop
<1>4. \A l \in 1..NumLines :
        \/ l < line
        \/ l = line /\ phase # "parse"
        \/ phase \in AfterLoop
        => l \in Parsed
  BY <1>3 DEF Parsed, InLoop, AfterLoop
<1> QED BY <1>1, <1>2, <1>4 DEF LintInv, KnownInv

(* Before the loop nothing has been passed.                                *)
LEMMA KnownGlob ==
  ASSUME LintInv, phase \notin {"next", "copyright", "global"}
  PROVE  {c \in CSuppressed \cup KernelSuppressed : WholeFile(c)} \subseteq lint.glob
BY DEF LintInv, KnownInv

(* A step of ProcessFileData keeps the invariant if what it stores and     *)
(* reports is right.                                                       *)
LEMMA StepKeeps ==
  ASSUME LintInv, phase # "next", UNCHANGED <<file, files>>,
         phase' \in Phases,
         nth' \in Nat, line' \in Int,
         phase' \in BeforeLoop => line' = -1,
         phase' \in InLoop \cup AfterLoop => line' \in 0..NumLines + 1,
         phase' \in {"final", "eof"} => line' = NumLines + 1,
         lint' \in Store, Sound(lint'), AllRight(lint'),
         phase' \notin {"next", "copyright", "global"} =>
           {c \in CSuppressed \cup KernelSuppressed : WholeFile(c)} \subseteq lint'.glob,
         \A l \in 1..NumLines :
           \/ phase' = "parse" /\ l < line'
           \/ phase' \in {"early", "checks", "cxx11"} /\ l <= line'
           \/ phase' \in AfterLoop
           => Stored(lint', l)
  PROVE  LintInv'
<1>0. /\ NumLines' = NumLines
      /\ \A c : WholeFile(c)' <=> WholeFile(c)
      /\ \A c, at : Marked(c, at)' <=> Marked(c, at)
      /\ \A l : Recognised(l)' <=> Recognised(l)
      /\ \A l : Suppression(l)' = Suppression(l)
  BY SameFile
<1>1. TypeOK'
  BY <1>0 DEF LintInv, TypeOK
<1>2. Sound(lint)'
  BY <1>0 DEF Sound
<1>3. AllRight(lint)'
  BY <1>0 DEF AllRight, Right
<1>4. \A l \in Parsed' : l \in 1..NumLines' => Stored(lint, l)'
  <2>1. \A l \in 1..NumLines : l \in Parsed' =>
          \/ phase' = "parse" /\ l < line'
          \/ phase' \in {"early", "checks", "cxx11"} /\ l <= line'
          \/ phase' \in AfterLoop
    BY <1>0 DEF Parsed, AfterLoop
  <2>2. \A l : Stored(lint', l) => Stored(lint, l)'
    BY <1>0 DEF Stored
  <2> QED BY <1>0, <2>1, <2>2
<1>5. phase' \notin {"next", "copyright", "global"} =>
        {c \in CSuppressed \cup KernelSuppressed : WholeFile(c)'} \subseteq lint'.glob
  BY <1>0
<1>6. KnownInv'
  BY <1>4, <1>5 DEF KnownInv
<1> QED BY <1>1, <1>2, <1>3, <1>6 DEF LintInv

-----------------------------------------------------------------------------
(* The steps of ProcessFileData                                            *)

(* The types inside a file.                                              *)
LEMMA InFile ==
  ASSUME LintInv, phase # "next"
  PROVE  /\ IsFile(file) /\ NumLines \in Nat /\ line \in Int /\ nth \in Nat
         /\ phase \in Phases /\ lint \in Store /\ Sound(lint) /\ AllRight(lint)
<1>1. IsFile(file)
  BY LintedFile DEF LintInv, TypeOK
<1>2. NumLines \in Nat
  BY <1>1 DEF IsFile, NumLines
<1>3. phase \in Phases
  BY DEF LintInv, TypeOK
<1> QED BY <1>1, <1>2, <1>3 DEF LintInv, TypeOK

(* A new file starts with nothing stored.                                *)
LEMMA StartFileStep == LintInv /\ StartFile => LintInv'
<1> SUFFICES ASSUME LintInv, StartFile PROVE LintInv'
  OBVIOUS
<1>1. /\ phase' = "copyright" /\ line' = -1 /\ nth' = 0
      /\ lint' = [supp |-> {}, glob |-> {}, log |-> <<>>]
  BY DEF StartFile, ResetNolintSuppressions, NoSuppressions
<1>2. files' \in Seq(Linted) /\ file' \in Linted
  BY DEF LintInv, TypeOK, StartFile
<1>3. lint' \in Store
  BY <1>1 DEF Store
<1>4. TypeOK'
  BY <1>1, <1>2, <1>3 DEF TypeOK, Phases, BeforeLoop, InLoop, AfterLoop
<1>5. Sound(lint)' /\ Len(lint'.log) = 0
  BY <1>1 DEF Sound
<1>6. AllRight(lint)'
  BY <1>5 DEF AllRight
<1>7. Parsed' = {}
  BY <1>1 DEF Parsed, AfterLoop
<1>8. KnownInv'
  BY <1>1, <1>7 DEF KnownInv
<1> QED BY <1>4, <1>5, <1>6, <1>8 DEF LintInv

(* The check of the first lines reports by what is stored.               *)
LEMMA CopyrightStep == LintInv /\ CheckForCopyright => LintInv'
<1> SUFFICES ASSUME LintInv, CheckForCopyright PROVE LintInv'
  OBVIOUS
<1>1. /\ phase = "copyright" /\ phase' = "global" /\ UNCHANGED <<files, file, line, nth>>
      /\ lint' = lint \/ lint' = Error(lint, "legal/copyright", 0)
  BY DEF CheckForCopyright
<1>2. line = -1
  BY <1>1 DEF LintInv, TypeOK, BeforeLoop
<1>3. "legal/copyright" \in Categories
  BY ReportedCategories DEF Reported
<1>4. lint' \in Store /\ Sound(lint') /\ AllRight(lint')
  BY <1>1, <1>2, <1>3, InFile, ErrorIsRight, SMTT(30)
<1> QED
  BY <1>1, <1>2, <1>4, InFile, StepKeeps DEF Phases, BeforeLoop, InLoop, AfterLoop

(* The directives of the whole file are stored.                          *)
LEMMA GlobalStep == LintInv /\ ProcessGlobalSuppressions => LintInv'
<1> SUFFICES ASSUME LintInv, ProcessGlobalSuppressions PROVE LintInv'
  OBVIOUS
<1> DEFINE found == UNION {RawLine(l).directives : l \in 1..NumLines}
           more == (IF "c" \in found THEN CSuppressed ELSE {})
                     \cup (IF "kernel" \in found THEN KernelSuppressed ELSE {})
<1>1. /\ phase = "global" /\ phase' = "comments" /\ UNCHANGED <<files, file, line, nth>>
      /\ lint' = [lint EXCEPT !.glob = @ \cup more]
  BY DEF ProcessGlobalSuppressions
<1>2. line = -1
  BY <1>1 DEF LintInv, TypeOK, BeforeLoop
<1>3. \A d : d \in found <=> \E l \in 1..NumLines : d \in RawLine(l).directives
  OBVIOUS
<1>4. \A c : c \in more <=> WholeFile(c)
  BY <1>3 DEF WholeFile
<1>5. more \subseteq CSuppressed \cup KernelSuppressed
  OBVIOUS
<1> HIDE DEF found, more
<1>6. /\ lint' \in Store /\ lint'.supp = lint.supp /\ lint'.log = lint.log
      /\ lint'.glob = lint.glob \cup more
  BY <1>1, <1>5, InFile DEF Store
<1>7. Sound(lint') /\ AllRight(lint')
  BY <1>1, <1>4, <1>6, InFile DEF Sound, AllRight
<1>8. {c \in CSuppressed \cup KernelSuppressed : WholeFile(c)} \subseteq lint'.glob
  BY <1>4, <1>6
<1> QED
  BY <1>1, <1>2, <1>6, <1>7, <1>8, InFile, StepKeeps DEF Phases, BeforeLoop, InLoop, AfterLoop

(* A comment without an end is reported by what is stored.               *)
LEMMA CommentsStep == LintInv /\ RemoveMultiLineComments => LintInv'
<1> SUFFICES ASSUME LintInv, RemoveMultiLineComments PROVE LintInv'
  OBVIOUS
<1>1. /\ phase = "comments" /\ UNCHANGED <<files, file, nth>>
      /\ \/ phase' = "guard" /\ line' = line
         \/ phase' = "parse" /\ line' = 0
      /\ lint' = lint \/ lint' = Error(lint, "readability/multiline_comment", file.open + 1)
  BY DEF RemoveMultiLineComments
<1>2. line = -1
  BY <1>1 DEF LintInv, TypeOK, BeforeLoop
<1>3. "readability/multiline_comment" \in Categories /\ file.open + 1 \in Int /\ ~(file.open + 1 <= line)
  BY <1>1, <1>2, InFile, ReportedCategories DEF Reported, IsFile
<1>4. lint' \in Store /\ Sound(lint') /\ AllRight(lint') /\ lint'.glob = lint.glob
  BY <1>1, <1>3, InFile, ErrorIsRight, SMTT(30)
<1>5. {c \in CSuppressed \cup KernelSuppressed : WholeFile(c)} \subseteq lint'.glob
  BY <1>1, <1>4, KnownGlob
<1>6. \A l \in 1..NumLines : ~(l < 0)
  BY <1>1, InFile
<1> QED
  BY <1>1, <1>2, <1>4, <1>5, <1>6, InFile, StepKeeps DEF Phases, BeforeLoop, InLoop, AfterLoop

(* The comments of the lines a header guard is on are parsed before the    *)
(* loop, and its reports come before it too.                               *)
LEMMA GuardStep == LintInv /\ CheckForHeaderGuard => LintInv'
<1> SUFFICES ASSUME LintInv, CheckForHeaderGuard PROVE LintInv'
  OBVIOUS
<1> DEFINE ifndef == IF file.guard = "other"
                     THEN Error(ParseNolint(lint, file.ifndef), "build/header_guard", file.ifndef)
                     ELSE lint
           endif == ParseNolint(ifndef, file.endif)
           Good(st) == st \in Store /\ Sound(st) /\ AllRight(st) /\ st.glob = lint.glob
<1>1. /\ phase = "guard" /\ phase' = "parse" /\ line' = 0 /\ UNCHANGED <<files, file, nth>>
      /\ \/ lint' = lint
         \/ lint' = Error(lint, "build/header_guard", 0)
         \/ lint' = GuardReports
  BY DEF CheckForHeaderGuard
<1>2. line = -1
  BY <1>1 DEF LintInv, TypeOK, BeforeLoop
<1>3. "build/header_guard" \in Categories /\ "build/header_guard" # "readability/braces"
  BY ReportedCategories DEF Reported
<1>4. /\ file.ifndef \in Int /\ ~(file.ifndef <= line)
      /\ file.endif \in Int /\ ~(file.endif <= line)
  BY <1>1, <1>2, InFile DEF IsFile
<1>5. ASSUME NEW st \in Store, Good(st), NEW at \in Int, ~(at <= line)
      PROVE  Good(Error(st, "build/header_guard", at)) /\ Good(ParseNolint(st, at))
  BY <1>1, <1>3, <1>5, InFile, ErrorIsRight, ParseIsRight, SMTT(30)
<1>6. Good(lint)
  BY <1>1, InFile
<1>7. Good(Error(lint, "build/header_guard", 0))
  BY <1>2, <1>5, <1>6
<1>8. Good(ifndef)
  <2>1. Good(ParseNolint(lint, file.ifndef))
    BY <1>4, <1>5, <1>6
  <2>2. Good(Error(ParseNolint(lint, file.ifndef), "build/header_guard", file.ifndef))
    BY <1>4, <1>5, <2>1
  <2> QED BY <1>6, <2>2
<1> HIDE DEF ifndef
<1>9. Good(endif)
  BY <1>4, <1>5, <1>8
<1>10. Good(Error(endif, "build/header_guard", file.endif))
  BY <1>4, <1>5, <1>9
<1>11. GuardReports \in {endif, Error(endif, "build/header_guard", file.endif)}
  BY DEF GuardReports, ifndef
<1>12. Good(lint')
  <2> HIDE DEF endif, Good
  <2> QED BY <1>1, <1>6, <1>7, <1>9, <1>10, <1>11
<1>13. {c \in CSuppressed \cup KernelSuppressed : WholeFile(c)} \subseteq lint'.glob
  BY <1>1, <1>12, KnownGlob
<1>14. \A l \in 1..NumLines : ~(l < 0)
  BY <1>1, InFile
<1> QED
  BY <1>1, <1>12, <1>13, <1>14, InFile, StepKeeps DEF Phases, BeforeLoop, InLoop, AfterLoop

(* ProcessLine parses the comment of the line before anything else.        *)
LEMMA ParseStep == LintInv /\ ParseNolintSuppressions => LintInv'
<1> SUFFICES ASSUME LintInv, ParseNolintSuppressions PROVE LintInv'
  OBVIOUS
<1>1. /\ phase = "parse" /\ phase' = "early" /\ nth' = 0 /\ UNCHANGED <<files, file, line>>
      /\ lint' = ParseNolint(lint, line)
  BY DEF ParseNolintSuppressions
<1>2. line \in 0..NumLines + 1
  BY <1>1 DEF LintInv, TypeOK, InLoop
<1>3. /\ \A c : WholeFile(c) => c \in lint.glob
      /\ \A l \in 1..NumLines : l < line => Stored(lint, l)
  BY <1>1, KnownLines DEF InLoop
<1>4. \A k \in 1..NumLines : k = line - 1 => Stored(lint, k)
  BY <1>1, <1>2, <1>3, InFile
<1>5. /\ lint' \in Store /\ Sound(lint') /\ AllRight(lint') /\ lint'.glob = lint.glob
      /\ lint.supp \subseteq lint'.supp /\ Stored(lint', line)
  BY <1>1, <1>3, <1>4, InFile, ParseIsRight, SMTT(30)
<1>6. {c \in CSuppressed \cup KernelSuppressed : WholeFile(c)} \subseteq lint'.glob
  BY <1>3, <1>5
<1>7. \A l \in 1..NumLines : l <= line => Stored(lint', l)
  <2>1. \A l \in 1..NumLines : l <= line => l < line \/ l = line
    BY <1>1, <1>2, InFile
  <2> QED BY <1>3, <1>5, <2>1 DEF Stored
<1> QED
  BY <1>1, <1>2, <1>5, <1>6, <1>7, InFile, StepKeeps DEF Phases, BeforeLoop, InLoop, AfterLoop

(* Once the comments up to a line are parsed, a report is right that is    *)
(* not ahead of the line.                                                  *)
LEMMA ReportPassed ==
  ASSUME LintInv, phase \in (InLoop \ {"parse"}) \cup AfterLoop,
         NEW category \in Categories, NEW at \in Int,
         category = "readability/braces" => at <= line
  PROVE  /\ Error(lint, category, at) \in Store
         /\ Error(lint, category, at).supp = lint.supp
         /\ Error(lint, category, at).glob = lint.glob
         /\ Sound(Error(lint, category, at))
         /\ AllRight(Error(lint, category, at))
<1>1. phase # "next" /\ phase # "parse"
  BY DEF InLoop, AfterLoop
<1>2. ASSUME at <= line
      PROVE  \A l \in 1..NumLines : l \in {at - 1, at} => Stored(lint, l)
  <2>1. \A l \in 1..NumLines : l \in {at - 1, at} => l < line \/ l = line
    BY <1>1, <1>2, InFile
  <2> QED BY <1>1, <2>1, KnownLines
<1>3. \A c : WholeFile(c) => c \in lint.glob
  BY KnownLines
<1> QED
  BY <1>1, <1>2, <1>3, InFile, ErrorIsRight, SMTT(30)

(* A step behind the parsing of the line that keeps what is stored         *)
LEMMA LaterStep ==
  ASSUME LintInv, phase \in (InLoop \ {"parse"}) \cup AfterLoop, UNCHANGED <<file, files>>,
         phase' \in {"next", "parse", "early", "checks", "cxx11"} \cup AfterLoop,
         nth' \in Nat, line' \in Int,
         phase' \in InLoop \cup AfterLoop => line' \in 0..NumLines + 1,
         phase' \in {"final", "eof"} => line' = NumLines + 1,
         lint' \in Store, Sound(lint'), AllRight(lint'),
         lint'.glob = lint.glob, lint.supp \subseteq lint'.supp,
         \/ phase \in InLoop /\ phase' \in {"early", "checks", "cxx11"} /\ line' = line
         \/ phase \in InLoop /\ phase' = "parse" /\ line' = line + 1
         \/ phase \in InLoop /\ phase' = "final" /\ line > NumLines
         \/ phase \in AfterLoop /\ phase' \in AfterLoop \cup {"next"}
  PROVE  LintInv'
<1>1. phase # "next" /\ phase # "parse" /\ phase \in InLoop \cup AfterLoop
  BY DEF InLoop, AfterLoop
<1>2. {c \in CSuppressed \cup KernelSuppressed : WholeFile(c)} \subseteq lint'.glob
  BY <1>1, KnownLines
<1>3. \A l \in 1..NumLines :
        \/ phase' = "parse" /\ l < line'
        \/ phase' \in {"early", "checks", "cxx11"} /\ l <= line'
        \/ phase' \in AfterLoop
        => l < line \/ l = line \/ phase \in AfterLoop
  BY <1>1, InFile DEF InLoop, AfterLoop
<1>4. \A l \in 1..NumLines :
        \/ phase' = "parse" /\ l < line'
        \/ phase' \in {"early", "checks", "cxx11"} /\ l <= line'
        \/ phase' \in AfterLoop
        => Stored(lint', l)
  <2>1. \A l : Stored(lint, l) => Stored(lint', l)
    BY DEF Stored
  <2> QED BY <1>1, <1>3, <2>1, KnownLines
<1>5. phase' \in Phases /\ phase' \notin BeforeLoop
  BY DEF Phases, BeforeLoop, InLoop, AfterLoop
<1> QED
  BY <1>1, <1>2, <1>4, <1>5, StepKeeps

(* The checks of a line that assembly does not skip keep the invariant.  *)
LEMMA EarlyStep == LintInv /\ EarlyChecks => LintInv'
<1> SUFFICES ASSUME LintInv, EarlyChecks PROVE LintInv'
  OBVIOUS
<1>1. phase = "early" /\ phase \in InLoop \ {"parse"} /\ UNCHANGED <<files, file, line>>
  BY DEF EarlyChecks, InLoop
<1>2. line \in 0..NumLines + 1 /\ nth \in Nat
  BY <1>1 DEF LintInv, TypeOK
<1> DEFINE l == LineAt(line)
           f == l.early[nth + 1]
<1>3. CASE nth < Len(l.early)
  <2>1. nth' = nth + 1 /\ phase' = phase /\ lint' = Error(lint, f.category, line + f.distance)
    BY <1>3 DEF EarlyChecks
  <2>2. /\ f.category \in Categories /\ f.distance \in Int
        /\ f.category = "readability/braces" => f.distance <= 0
    <3>1. IsLine(l)
      BY <1>1, InFile, AnyLine
    <3>2. nth + 1 \in 1..Len(l.early)
      BY <1>2, <1>3, <3>1 DEF IsLine
    <3> HIDE DEF l
    <3> QED BY <3>1, <3>2 DEF IsLine, IsFound
  <2> HIDE DEF f
  <2>3. /\ line + f.distance \in Int
        /\ f.category = "readability/braces" => line + f.distance <= line
    BY <1>2, <2>2
  <2>4. /\ lint' \in Store /\ Sound(lint') /\ AllRight(lint')
        /\ lint'.glob = lint.glob /\ lint'.supp = lint.supp
    BY <1>1, <2>1, <2>2, <2>3, ReportPassed, SMTT(30)
  <2> QED BY <1>1, <1>2, <2>1, <2>4, LaterStep, SMTT(30)
<1>4. CASE ~(nth < Len(l.early))
  <2>1. nth' = 0 /\ lint' = lint /\ phase' \in {"checks", "cxx11"}
    BY <1>4 DEF EarlyChecks
  <2> QED BY <1>1, <1>2, <2>1, InFile, LaterStep, SMTT(30) DEF InLoop, AfterLoop
<1> QED BY <1>3, <1>4

(* CheckTrailingSemicolon parses two comments ahead before it reports, so  *)
(* its report is right however far ahead it is.                            *)
LEMMA ChecksStep == LintInv /\ Checks => LintInv'
<1> SUFFICES ASSUME LintInv, Checks PROVE LintInv'
  OBVIOUS
<1>1. phase = "checks" /\ phase \in InLoop \ {"parse"} /\ UNCHANGED <<files, file, line>>
  BY DEF Checks, InLoop
<1>2. /\ line \in 0..NumLines + 1 /\ nth \in Nat /\ line \in Int
      /\ IsFile(file) /\ NumLines \in Nat /\ phase \in Phases
      /\ lint \in Store /\ Sound(lint) /\ AllRight(lint)
  BY <1>1, InFile DEF LintInv, TypeOK
<1> DEFINE l == LineAt(line)
           f == l.checks[nth + 1]
           at == line + f.distance
<1>3. CASE nth < Len(l.checks)
  <2>1. /\ nth' = nth + 1 /\ phase' = phase
        /\ lint' = Error(IF f.ahead THEN ParsedAhead(lint, at) ELSE lint, f.category, at)
    BY <1>3 DEF Checks
  <2>2. /\ f.category \in Categories /\ f.distance \in Int /\ f.ahead \in BOOLEAN
        /\ f.ahead => f.distance >= 0
        /\ f.category = "readability/braces" => f.ahead \/ f.distance <= 0
    <3>1. IsLine(l)
      BY <1>2, AnyLine
    <3>2. nth + 1 \in 1..Len(l.checks)
      BY <1>2, <1>3, <3>1 DEF IsLine
    <3> HIDE DEF l
    <3> QED BY <3>1, <3>2 DEF IsLine, IsFound
  <2>3. at \in Int
    BY <1>2, <2>2
  <2>4. /\ \A c : WholeFile(c) => c \in lint.glob
        /\ \A k \in 1..NumLines : k <= line => Stored(lint, k)
    <3>1. \A k \in 1..NumLines : k <= line => k < line \/ k = line
      BY <1>2, SMTT(30)
    <3> QED BY <1>1, <3>1, KnownLines, SMTT(30)
  <2>5. CASE f.ahead
    <3> DEFINE one == ParseNolint(lint, at - 1)
               two == ParseNolint(one, at)
    <3>1. at >= line /\ at - 1 \in Int
      BY <1>2, <2>2, <2>3, <2>5
    <3>2. /\ one \in Store /\ Sound(one) /\ AllRight(one) /\ one.glob = lint.glob
          /\ lint.supp \subseteq one.supp /\ Stored(one, at - 1)
      <4>1. at - 1 <= line => \A k \in 1..NumLines : k = at - 1 - 1 => Stored(lint, k)
        BY <1>2, <2>3, <2>4
      <4> HIDE DEF at
      <4> QED BY <1>2, <2>4, <3>1, <4>1, ParseIsRight, SMTT(30)
    <3> HIDE DEF one
    <3>3. /\ two \in Store /\ Sound(two) /\ AllRight(two) /\ two.glob = one.glob
          /\ one.supp \subseteq two.supp /\ Stored(two, at)
      <4>1. \A k \in 1..NumLines : k = at - 1 => Stored(one, k)
        BY <3>2
      <4> HIDE DEF at
      <4> QED BY <1>2, <2>3, <2>4, <3>2, <4>1, ParseIsRight, SMTT(30)
    <3> HIDE DEF two
    <3>4. \A k \in 1..NumLines : k \in {at - 1, at} => Stored(two, k)
      <4> HIDE DEF at
      <4> QED BY <3>2, <3>3, SMTT(30) DEF Stored
    <3>5. lint' = Error(two, f.category, at)
      BY <2>1, <2>5, SMTT(30) DEF ParsedAhead, one, two
    <3>6. /\ lint' \in Store /\ Sound(lint') /\ AllRight(lint')
          /\ lint'.glob = lint.glob /\ lint'.supp = two.supp
      <4> HIDE DEF at, f
      <4> QED BY <1>2, <2>2, <2>3, <2>4, <3>2, <3>3, <3>4, <3>5, ErrorIsRight, SMTT(30)
    <3>7. lint.supp \subseteq lint'.supp
      BY <3>2, <3>3, <3>6, Zenon
    <3>8. nth' \in Nat /\ phase' = "checks" /\ line' = line
      BY <1>1, <1>2, <2>1
    <3> HIDE DEF l, f, at
    <3> QED BY <1>1, <1>2, <3>6, <3>7, <3>8, LaterStep, SMTT(30)
  <2>6. CASE ~f.ahead
    <3>1. lint' = Error(lint, f.category, at)
      BY <2>1, <2>6
    <3>2. f.category = "readability/braces" => at <= line
      BY <1>2, <2>2, <2>6
    <3>3. /\ lint' \in Store /\ Sound(lint') /\ AllRight(lint')
          /\ lint'.glob = lint.glob /\ lint'.supp = lint.supp
      <4> HIDE DEF at, f
      <4> QED BY <1>1, <2>2, <2>3, <3>1, <3>2, ReportPassed, SMTT(30)
    <3>4. nth' \in Nat /\ phase' = "checks" /\ line' = line
      BY <1>1, <1>2, <2>1
    <3> HIDE DEF l, f, at
    <3> QED BY <1>1, <1>2, <3>3, <3>4, LaterStep, SMTT(30)
  <2> QED BY <2>5, <2>6
<1>4. CASE ~(nth < Len(l.checks))
  <2>1. nth' = 0 /\ lint' = lint /\ phase' = "cxx11"
    BY <1>4 DEF Checks
  <2> QED BY <1>1, <1>2, <2>1, LaterStep, SMTT(30) DEF InLoop, AfterLoop
<1> QED BY <1>3, <1>4

(* The last check of a line leads to the next line.                      *)
LEMMA Cxx11Step == LintInv /\ FlagCxx11Features => LintInv'
<1> SUFFICES ASSUME LintInv, FlagCxx11Features PROVE LintInv'
  OBVIOUS
<1>1. /\ phase = "cxx11" /\ phase \in InLoop \ {"parse"} /\ UNCHANGED <<files, file, nth>>
      /\ lint' = lint \/ lint' = Error(lint, "build/c++11", line)
      /\ \/ line <= NumLines /\ line' = line + 1 /\ phase' = "parse"
         \/ ~(line <= NumLines) /\ line' = line /\ phase' = "final"
  BY DEF FlagCxx11Features, InLoop, MoreLines
<1>2. line \in 0..NumLines + 1 /\ nth \in Nat /\ NumLines \in Nat
  BY <1>1, InFile DEF LintInv, TypeOK
<1>3. "build/c++11" \in Categories
  BY ReportedCategories DEF Reported
<1>4. /\ lint' \in Store /\ Sound(lint') /\ AllRight(lint')
      /\ lint'.glob = lint.glob /\ lint'.supp = lint.supp
  BY <1>1, <1>2, <1>3, InFile, ReportPassed, SMTT(30)
<1>5. CASE line <= NumLines /\ line' = line + 1 /\ phase' = "parse"
  BY <1>1, <1>2, <1>4, <1>5, LaterStep, SMTT(30) DEF InLoop, AfterLoop
<1>6. CASE ~(line <= NumLines) /\ line' = line /\ phase' = "final"
  <2>1. line = NumLines + 1 /\ line > NumLines
    BY <1>2, <1>6
  <2> QED BY <1>1, <1>2, <1>4, <1>6, <2>1, LaterStep, SMTT(30) DEF InLoop, AfterLoop
<1> QED BY <1>1, <1>5, <1>6

(* The checks behind the loop report by what is stored.                  *)
LEMMA FinalStep == LintInv /\ FinalChecks => LintInv'
<1> SUFFICES ASSUME LintInv, FinalChecks PROVE LintInv'
  OBVIOUS
<1>1. phase = "final" /\ phase \in AfterLoop /\ UNCHANGED <<files, file>>
  BY DEF FinalChecks, AfterLoop
<1>2. line = NumLines + 1 /\ nth \in Nat /\ NumLines \in Nat /\ line \in Int
  BY <1>1, InFile DEF LintInv, TypeOK
<1> DEFINE f == file.final[nth + 1]
<1>3. CASE nth < Len(file.final)
  <2>1. nth' = nth + 1 /\ line' = line /\ phase' = phase /\ lint' = Error(lint, f.category, f.line)
    BY <1>3 DEF FinalChecks
  <2>2. f.category \in Categories /\ f.line \in 0..NumLines + 1
    <3>1. nth + 1 \in 1..Len(file.final)
      BY <1>1, <1>2, <1>3, InFile DEF IsFile
    <3> QED BY <1>1, <3>1, InFile DEF IsFile, NumLines
  <2> HIDE DEF f
  <2>3. f.line \in Int /\ f.line <= line
    BY <1>2, <2>2
  <2>4. /\ lint' \in Store /\ Sound(lint') /\ AllRight(lint')
        /\ lint'.glob = lint.glob /\ lint'.supp = lint.supp
    BY <1>1, <2>1, <2>2, <2>3, ReportPassed, SMTT(30)
  <2> QED BY <1>1, <1>2, <2>1, <2>4, LaterStep, SMTT(30)
<1>4. CASE ~(nth < Len(file.final))
  <2>1. nth' = 0 /\ lint' = lint /\ phase' = "characters" /\ line' = 0
    BY <1>4 DEF FinalChecks
  <2> QED BY <1>1, <1>2, <2>1, InFile, LaterStep, SMTT(30) DEF InLoop, AfterLoop
<1> QED BY <1>3, <1>4

(* The two reports of a line follow each other.                            *)
LEMMA CharactersStep == LintInv /\ CheckForBadCharacters => LintInv'
<1> SUFFICES ASSUME LintInv, CheckForBadCharacters PROVE LintInv'
  OBVIOUS
<1> DEFINE bad == LineAt(line).bad
           utf8 == IF "utf8" \in bad THEN Error(lint, "readability/utf8", line) ELSE lint
<1>1. /\ phase = "characters" /\ phase \in AfterLoop /\ UNCHANGED <<files, file, nth>>
      /\ lint' = utf8 \/ lint' = Error(utf8, "readability/nul", line)
      /\ \/ line <= NumLines /\ line' = line + 1 /\ phase' = phase
         \/ ~(line <= NumLines) /\ line' = line /\ phase' = "eof"
  BY DEF CheckForBadCharacters, AfterLoop, MoreLines
<1>2. /\ line \in 0..NumLines + 1 /\ nth \in Nat /\ NumLines \in Nat
      /\ IsFile(file) /\ phase \in Phases
  BY <1>1, InFile DEF LintInv, TypeOK
<1>3. "readability/utf8" \in Categories /\ "readability/nul" \in Categories
  BY ReportedCategories DEF Reported
<1>4. /\ utf8 \in Store /\ Sound(utf8) /\ AllRight(utf8)
      /\ utf8.glob = lint.glob /\ utf8.supp = lint.supp
  BY <1>1, <1>2, <1>3, InFile, ReportPassed, SMTT(30)
<1> HIDE DEF utf8
<1>5. /\ \A c : WholeFile(c) => c \in utf8.glob
      /\ \A l \in 1..NumLines : Stored(utf8, l)
  BY <1>1, <1>4, KnownLines DEF Stored
<1>6. /\ lint' \in Store /\ Sound(lint') /\ AllRight(lint')
      /\ lint'.glob = lint.glob /\ lint'.supp = lint.supp
  BY <1>1, <1>2, <1>3, <1>4, <1>5, ErrorIsRight, SMTT(30)
<1>7. CASE line <= NumLines /\ line' = line + 1 /\ phase' = phase
  BY <1>1, <1>2, <1>6, <1>7, LaterStep, SMTT(30) DEF InLoop, AfterLoop
<1>8. CASE ~(line <= NumLines) /\ line' = line /\ phase' = "eof"
  <2>1. line = NumLines + 1
    BY <1>2, <1>8
  <2> QED BY <1>1, <1>2, <1>6, <1>8, <2>1, LaterStep, SMTT(30) DEF InLoop, AfterLoop
<1> QED BY <1>1, <1>7, <1>8

(* The check of the last line reports by what is stored.                 *)
LEMMA EofStep == LintInv /\ CheckForNewlineAtEOF => LintInv'
<1> SUFFICES ASSUME LintInv, CheckForNewlineAtEOF PROVE LintInv'
  OBVIOUS
<1>1. /\ phase = "eof" /\ phase \in AfterLoop /\ phase' = "next"
      /\ UNCHANGED <<files, file, line, nth>>
      /\ lint' = lint \/ lint' = Error(lint, "whitespace/ending_newline", NumLines)
  BY DEF CheckForNewlineAtEOF, AfterLoop
<1>2. line = NumLines + 1 /\ nth \in Nat /\ NumLines \in Nat /\ line \in Int
  BY <1>1, InFile DEF LintInv, TypeOK
<1>3. "whitespace/ending_newline" \in Categories
  BY ReportedCategories DEF Reported
<1>4. /\ lint' \in Store /\ Sound(lint') /\ AllRight(lint')
      /\ lint'.glob = lint.glob /\ lint'.supp = lint.supp
  BY <1>1, <1>2, <1>3, InFile, ReportPassed, SMTT(30)
<1> QED BY <1>1, <1>2, <1>4, LaterStep, SMTT(30) DEF InLoop, AfterLoop

-----------------------------------------------------------------------------

(* Nothing is stored and nothing reported before the first file.           *)
LEMMA InitLintInv == Init => LintInv
<1> SUFFICES ASSUME Init PROVE LintInv
  OBVIOUS
<1>1. phase = "next" /\ line = 0 /\ nth = 0 /\ lint = [supp |-> {}, glob |-> {}, log |-> <<>>]
  BY DEF Init, NoSuppressions
<1>2. files \in Seq(Linted)
  BY LintAssumption DEF Init
<1>3. lint \in Store
  BY <1>1 DEF Store
<1>4. TypeOK
  BY <1>1, <1>2, <1>3 DEF TypeOK, Phases, BeforeLoop, InLoop, AfterLoop
<1>5. Sound(lint) /\ Len(lint.log) = 0
  BY <1>1 DEF Sound
<1>6. Parsed = {}
  BY <1>1 DEF Parsed, AfterLoop
<1>7. KnownInv /\ AllRight(lint)
  BY <1>1, <1>5, <1>6 DEF KnownInv, AllRight
<1> QED BY <1>4, <1>5, <1>7 DEF LintInv

(* The linter is as it was if it does nothing.                             *)
LEMMA SameLint == LintInv /\ UNCHANGED vars => LintInv'
<1> SUFFICES ASSUME LintInv, UNCHANGED vars PROVE LintInv'
  OBVIOUS
<1>0. /\ NumLines' = NumLines
      /\ \A c : WholeFile(c)' <=> WholeFile(c)
      /\ \A c, at : Marked(c, at)' <=> Marked(c, at)
      /\ \A l : Recognised(l)' <=> Recognised(l)
      /\ \A l : Suppression(l)' = Suppression(l)
  BY SameFile DEF vars
<1>1. UNCHANGED <<phase, files, file, line, nth, lint>>
  BY DEF vars
<1>2. TypeOK'
  BY <1>0, <1>1 DEF LintInv, TypeOK
<1>3. Sound(lint)'
  BY <1>0, <1>1 DEF LintInv, Sound
<1>4. AllRight(lint)'
  BY <1>0, <1>1 DEF LintInv, AllRight, Right
<1>5. Parsed' = Parsed
  BY <1>0, <1>1 DEF Parsed
<1>6. \A l : Stored(lint, l)' <=> Stored(lint, l)
  BY <1>0, <1>1 DEF Stored
<1>7. phase' \notin {"next", "copyright", "global"} =>
        {c \in CSuppressed \cup KernelSuppressed : WholeFile(c)'} \subseteq lint'.glob
  BY <1>0, <1>1 DEF LintInv, KnownInv
<1>8. KnownInv'
  BY <1>0, <1>1, <1>5, <1>6, <1>7 DEF LintInv, KnownInv
<1> QED BY <1>2, <1>3, <1>4, <1>8 DEF LintInv

(* The store, the reports and the place in the file fit together in every  *)
(* state of every run over files (ProcessFileData, ProcessLine).           *)
THEOREM LintInvHolds == Spec => []LintInv
<1>1. LintInv /\ [Next]_vars => LintInv'
  BY StartFileStep, CopyrightStep, GlobalStep, CommentsStep, GuardStep, ParseStep, EarlyStep,
     ChecksStep, Cxx11Step, FinalStep, CharactersStep, EofStep, SameLint DEF Next
<1> QED
  BY <1>1, InitLintInv, PTL DEF Spec

(* In files of every length, nothing is hidden that no comment of the file *)
(* asks to hide: no comment reaches another line, another category or the  *)
(* next file (ResetNolintSuppressions, ParseNolintSuppressions,            *)
(* IsErrorSuppressedByNolint).                                             *)
THEOREM NothingElseIsHidden == Spec => []OnlyMarkedIsHidden
<1>1. LintInv => OnlyMarkedIsHidden
  BY DEF LintInv, AllRight, Right, OnlyMarkedIsHidden, Logged
<1> QED
  BY <1>1, LintInvHolds, PTL

(* In files of every length, what a comment asks to hide is hidden once    *)
(* the linter has passed the line, and by CheckTrailingSemicolon also      *)
(* ahead of it.                                                            *)
THEOREM MarkedStaysHidden == Spec => []MarkedIsHidden
<1>1. LintInv => MarkedIsHidden
  BY DEF LintInv, AllRight, Right, MarkedIsHidden, Logged
<1> QED
  BY <1>1, LintInvHolds, PTL

=============================================================================
